---------------------------- MODULE Spec2Model ----------------------------
(***************************************************************************)
(* H-UDP transport (src/gameNetAPI.py, src/common.py): the wire codec, the *)
(* client's reliable send engine (sequence allocation, send window,        *)
(* per-packet retransmission timers, ACK handling) and the server's        *)
(* per-peer receive engine (ACK generation, reorder buffer, in-order       *)
(* delivery, gap-skip scan).                                               *)
(*                                                                         *)
(* Every handler of the single-threaded asyncio loop is one atomic action. *)
(* A coroutine is split at its await points.                               *)
(***************************************************************************)
EXTENDS Integers, Sequences, FiniteSets, Bags, TLC

(***************************************************************************)
(* Program constants.                                                      *)
(***************************************************************************)
HEADER_SIZE == 8
SeqMod == 65536
\* The millisecond clock is 32 bits wide (get_time_ms: % 2**32).  TLC's integers
\* are 32-bit signed, so a clock value is kept as two 16-bit limbs,
\* [hi, lo] = hi * Limb + lo, and the arithmetic on it is exact.
Limb == 65536

(***************************************************************************)
(* Configuration (DEFAULT_CONFIG keys overridden by the config argument,   *)
(* as the tests do) and the bounds of the model.                           *)
(***************************************************************************)
send_window_size == 2
recv_window_size == 2
max_retx == 1
gap_skip_timeout_ms == 2
retx_timeout_ms == 1
\* config["mtu"]: the header and one payload byte
mtu == 9

\* number of send_reliable calls the application makes
MaxSends == 3
\* clock ticks (milliseconds) the model lets pass
MaxTicks == 2
\* datagrams the server handles in the server-only specification
MaxRx == 3
\* highest sequence number of a datagram in the server-only specification
MaxSeq == 2
\* number of send_unreliable calls the application makes
MaxUnrel == 2
Peers == {"A", "B"}
ClientAddr == "A"
Payloads == {<<1>>, <<2>>}
\* the payload of the c-th send_reliable call (opaque to the transport)
PayloadsOf(c) == { <<c>> }
\* the wall clock at process start: anywhere, also just before it wraps
StartTimes == { [hi |-> 0, lo |-> 0], [hi |-> Limb - 1, lo |-> Limb - 2] }

UNRELIABLE == 0
RELIABLE == 1
FLAG_NONE == 0
FLAG_ACK == 1
FLAG_RETX == 4

None == [none |-> TRUE]
EmptyMap == [x \in {} |-> 0]

Remove(f, k) == [x \in DOMAIN f \ {k} |-> f[x]]
Put(f, k, v) == [x \in DOMAIN f \cup {k} |-> IF x = k THEN v ELSE f[x]]

(***************************************************************************)
(* Wire codec: struct format '!BBHI' (big-endian u8, u8, u16, u32) followed*)
(* by the payload.  A datagram is a sequence of bytes.                     *)
(***************************************************************************)
\* an encoder that packs seq low byte first
encode_packet_little(channel, flags, seq, ts_ms, payload) ==
    << channel, flags,
       seq % 256, (seq \div 256) % 256,
       (ts_ms.hi \div 256) % 256, ts_ms.hi % 256,
       (ts_ms.lo \div 256) % 256, ts_ms.lo % 256 >> \o payload

encode_packet(channel, flags, seq, ts_ms, payload) ==
    << channel, flags,
       (seq \div 256) % 256, seq % 256,
       (ts_ms.hi \div 256) % 256, ts_ms.hi % 256,
       (ts_ms.lo \div 256) % 256, ts_ms.lo % 256 >> \o payload

\* a decoder that reads a short datagram as if zero bytes followed it
decode_packet_padding(data) ==
    LET d == data \o [i \in 1 .. HEADER_SIZE |-> 0]
    IN  [header |-> [channel |-> d[1],
                     flags   |-> d[2],
                     seq     |-> d[3] * 256 + d[4],
                     ts_ms   |-> [hi |-> d[5] * 256 + d[6],
                                  lo |-> d[7] * 256 + d[8]]],
         payload |-> SubSeq(data, HEADER_SIZE + 1, Len(data))]

decode_packet(data) ==
    IF Len(data) < HEADER_SIZE
    THEN None
    ELSE [header |-> [channel |-> data[1],
                      flags   |-> data[2],
                      seq     |-> data[3] * 256 + data[4],
                      ts_ms   |-> [hi |-> data[5] * 256 + data[6],
                                   lo |-> data[7] * 256 + data[8]]],
          payload |-> SubSeq(data, HEADER_SIZE + 1, Len(data))]

\* an ACK without the ACK flag
make_ack_packet_unflagged(seq, ts_ms) == encode_packet(RELIABLE, FLAG_NONE, seq, ts_ms, <<>>)

make_ack_packet(seq, ts_ms) == encode_packet(RELIABLE, FLAG_ACK, seq, ts_ms, <<>>)

\* an ACK test that looks at the channel first
is_ack_reliable(header) == header.flags % 2 = 1 /\ header.channel = RELIABLE

is_ack(header) == header.flags % 2 = 1

(***************************************************************************)
(* Clock arithmetic on two-limb values.  TimeSub is Python's exact integer *)
(* subtraction a - b (it may be negative); IntGE(d, n) is d >= n for a     *)
(* difference d and 0 <= n < Limb.                                         *)
(***************************************************************************)
Zero == [hi |-> 0, lo |-> 0]

TimeSucc(t) ==
    IF t.lo = Limb - 1 THEN [hi |-> (t.hi + 1) % Limb, lo |-> 0]
    ELSE [t EXCEPT !.lo = @ + 1]

TimeSub(a, b) == [hi |-> a.hi - b.hi, lo |-> a.lo - b.lo]

\* a comparison that holds for every waited time
IntGE_any(d, n) == TRUE

IntGE(d, n) ==
    IF d.hi >= 2 THEN TRUE
    ELSE IF d.hi <= -2 THEN FALSE
    ELSE d.hi * Limb + d.lo >= n

(***************************************************************************)
(* Sequence arithmetic.                                                    *)
(***************************************************************************)
\* a comparison that ignores the wrap
seq_lt_plain(a, b) == a < b

seq_lt(a, b) ==
    IF a = b THEN FALSE ELSE ((b - a) % SeqMod) < (SeqMod \div 2)

\* a window test that does not wrap past 65535
seq_in_window_nowrap(seq, base, window_size) ==
    base <= seq /\ seq < base + window_size

\* a window test that accepts every seq
seq_in_window_any(seq, base, window_size) == seq \in 0 .. SeqMod - 1

\* a window test that admits one seq past the window
seq_in_window_wide(seq, base, window_size) ==
    (seq - base) % SeqMod < window_size + 1

seq_in_window(seq, base, window_size) ==
    \E i \in 0 .. window_size - 1 : (base + i) % SeqMod = seq

(***************************************************************************)
(* State.                                                                  *)
(***************************************************************************)
\* no helper call is being looked at
NoCall == [fn |-> "none", args |-> <<>>, ret |-> <<>>]

\* a ClientProtocol as send() uses it, just constructed: its two counters and
\* the number of entries of its send_buffer
ProtocolInstance == [next_seq |-> 0, unrel_seq |-> 0, in_flight |-> 0]

\* GameNetAPIClient.__init__: no protocol (0 stands for None), not
\* initialized, _init_lock free; endpoints are the ClientProtocol instances
\* constructed so far, tasks the send() coroutines
ApiInit ==
    [initialized |-> FALSE, locked |-> FALSE, waiters |-> <<>>, protocol |-> 0,
     endpoints |-> <<>>,
     tasks |-> [c \in 1 .. MaxSends |->
                  [pc |-> "idle", reliable |-> FALSE, waited |-> FALSE,
                   endpoint |-> 0, protocol |-> 0, seq |-> -1]]]

VARIABLES
    now_ms,            \* get_time_ms(): int(time.time()*1000) % 2**32
    ticks,             \* milliseconds elapsed since start (unwrapped)
    c2s,               \* datagrams in flight, client -> server
    s2c,               \* datagrams in flight, server -> peers: [to, data]
    next_seq,          \* ClientProtocol.next_seq
    unrel_seq,         \* ClientProtocol.unrel_seq
    unrel_calls,       \* the send_unreliable calls made: [payload, outcome, seq]
    send_buffer,       \* ClientProtocol.send_buffer: seq -> SendBufferEntry
    retx_tasks,        \* ClientProtocol.retx_tasks: the seqs that are keys of the dict
    timers,            \* bag of [seq, due]: the _retx_timer tasks that are alive
    window_available,  \* ClientProtocol.window_available (asyncio.Event flag)
    closed,            \* ClientProtocol.closed
    callers,           \* the send_reliable coroutines: call -> [pc, payload, seq]
    client_stats,      \* ClientProtocol.stats
    client_log,        \* bag of the events the client passed to log_cb
    client_recv,       \* the client's recv_cb calls
    clients,           \* ServerProtocol.clients: addr -> ClientState
    server_closed,     \* ServerProtocol.closed (the gap task is cancelled with it)
    rx_calls,          \* how many times the server's datagram_received was called
    server_stats,      \* ServerProtocol.stats
    server_log,        \* bag of the events the server passed to log_cb
    recv_log,          \* the server's recv_cb calls, per source address
    call,              \* a call of a pure helper of common.py: [fn, args, ret]
    api                \* GameNetAPIClient and the send() coroutines running on it

clientVars == << next_seq, unrel_seq, unrel_calls, send_buffer, retx_tasks, timers, window_available,
                 closed, callers, client_stats, client_log, client_recv >>
serverVars == << clients, server_closed, rx_calls, server_stats, server_log,
                recv_log >>
netVars == << c2s, s2c >>
vars == << now_ms, ticks, c2s, s2c, next_seq, unrel_seq, unrel_calls, send_buffer, retx_tasks, timers,
           window_available, closed, callers, client_stats, client_log,
           client_recv, clients, server_closed, rx_calls, server_stats, server_log,
           recv_log, call, api >>

get_time_ms == now_ms

\* a log_cb event; the time-valued fields of the source's events are left out
Event(kind, addr, seq, info) ==
    [event |-> kind, addr |-> addr, seq |-> seq, info |-> info]

RECURSIVE LogAll(_, _)
LogAll(bag, events) ==
    IF events = <<>> THEN bag
    ELSE LogAll(bag (+) SetToBag({Head(events)}), Tail(events))

Count(bag, e) == CopiesIn(e, bag)

(***************************************************************************)
(* Server: per-peer receive engine.                                        *)
(***************************************************************************)
ClientState ==
    [expected_seq |-> 0, recv_buffer |-> EmptyMap,
     delivered_seqs |-> {}, gap_first_seen |-> EmptyMap]

\* a _deliver_in_order that never passes the skipped mark on
Delivery_unmarked(seq, payload, skipped) ==
    [channel |-> "RELIABLE", seq |-> seq, ts_ms |-> [hi |-> 0, lo |-> 0],
     payload |-> payload, skipped |-> FALSE]

\* the recv_cb record of a reliable delivery
Delivery(seq, payload, skipped) ==
    [channel |-> "RELIABLE", seq |-> seq, ts_ms |-> Zero,
     payload |-> payload, skipped |-> skipped]

\* the while loop of _deliver_in_order
RECURSIVE DeliverLoop(_, _, _)
DeliverLoop(cs, skipped, out) ==
    IF cs.expected_seq \in DOMAIN cs.recv_buffer
    THEN LET seq == cs.expected_seq
             payload == cs.recv_buffer[seq]
             cs1 == [cs EXCEPT !.delivered_seqs = @ \cup {seq},
                               !.recv_buffer = Remove(@, seq),
                               !.gap_first_seen = Remove(@, seq),
                               !.expected_seq = (cs.expected_seq + 1) % SeqMod]
         IN  DeliverLoop(cs1, FALSE, Append(out, Delivery(seq, payload, skipped)))
    ELSE [cs |-> cs, out |-> out]

\* a _deliver_in_order that calls recv_cb and consumes nothing
deliver_in_order_noconsume(client_state, skipped) ==
    [cs |-> client_state, out |-> DeliverLoop(client_state, skipped, <<>>).out]

\* a _deliver_in_order that marks its first delivery whoever calls it
deliver_in_order_marking(client_state, skipped) ==
    LET r == DeliverLoop(client_state, TRUE, <<>>)
        e == r.cs.expected_seq
    IN  IF e \notin DOMAIN r.cs.recv_buffer /\ e \notin DOMAIN r.cs.gap_first_seen
        THEN [cs |-> [r.cs EXCEPT !.gap_first_seen = Put(@, e, get_time_ms)],
              out |-> r.out]
        ELSE r

\* a _deliver_in_order that returns after its loop, without the gap stamp
deliver_in_order_unstamped(client_state, skipped) ==
    DeliverLoop(client_state, skipped, <<>>)

\* _deliver_in_order: the loop, then the stamp of a new gap
deliver_in_order(client_state, skipped) ==
    LET r == DeliverLoop(client_state, skipped, <<>>)
        e == r.cs.expected_seq
    IN  IF e \notin DOMAIN r.cs.recv_buffer /\ e \notin DOMAIN r.cs.gap_first_seen
        THEN [cs |-> [r.cs EXCEPT !.gap_first_seen = Put(@, e, get_time_ms)],
              out |-> r.out]
        ELSE r

DeliverEvents(addr, out) ==
    [i \in 1 .. Len(out) |->
        Event("deliver", addr, out[i].seq, IF out[i].skipped THEN 1 ELSE 0)]

\* _handle_reliable_data: [cs, out (recv_cb calls), events, tx (send_raw calls)]
handle_reliable_data(packet, addr, client_state) ==
    LET seq == packet.header.seq
        ack == [to |-> addr, data |-> make_ack_packet(seq, get_time_ms)]
        ev  == << Event("rx_data", addr, seq, RELIABLE), Event("ack_tx", addr, seq, 0) >>
    IN  IF ~ seq_in_window(seq, client_state.expected_seq, recv_window_size)
        THEN [cs |-> client_state, out |-> <<>>, events |-> ev, tx |-> <<ack>>]
        ELSE IF seq \in client_state.delivered_seqs
        THEN [cs |-> client_state, out |-> <<>>, events |-> ev, tx |-> <<ack>>]
        ELSE LET r == deliver_in_order(
                          [client_state EXCEPT
                              !.recv_buffer = Put(@, seq, packet.payload)], FALSE)
             IN  [cs |-> r.cs, out |-> r.out,
                  events |-> ev \o DeliverEvents(addr, r.out), tx |-> <<ack>>]

\* a receiver that drops unreliable data instead of delivering it
handle_unreliable_data_dropping(packet, addr) ==
    [out |-> <<>>,
     events |-> << Event("rx_data", addr, packet.header.seq, UNRELIABLE) >>]

\* _handle_unreliable_data (the transit samples and the jitter are telemetry
\* no delivery depends on; they are not modelled)
handle_unreliable_data(packet, addr) ==
    [out |-> << [channel |-> "UNRELIABLE", seq |-> packet.header.seq,
                 ts_ms |-> packet.header.ts_ms, payload |-> packet.payload,
                 skipped |-> FALSE] >>,
     events |-> << Event("rx_data", addr, packet.header.seq, UNRELIABLE),
                   Event("deliver", addr, packet.header.seq, 0) >>]

\* a datagram_received that keeps one receive state for all peers
server_datagram_received_shared(data, addr) ==
    LET packet == decode_packet(data)
        same == [clients |-> clients, server_stats |-> server_stats,
                 server_log |-> server_log, recv_log |-> recv_log, tx |-> <<>>]
    IN  IF packet = None THEN same
        ELSE LET cl == IF addr \in DOMAIN clients THEN clients
                       ELSE Put(clients, addr, ClientState)
                 st == [server_stats EXCEPT !.rx_total = @ + 1]
             IN  IF is_ack(packet.header)
                 THEN [same EXCEPT !.clients = cl, !.server_stats = st]
                 ELSE IF packet.header.channel = RELIABLE
                 THEN LET r == handle_reliable_data(packet, addr, cl[addr])
                      IN  [clients |-> [b \in DOMAIN cl |-> r.cs],
                           server_stats |-> [st EXCEPT !.rx_reliable = @ + 1],
                           server_log |-> LogAll(server_log, r.events),
                           recv_log |-> [recv_log EXCEPT ![addr] = @ \o r.out],
                           tx |-> r.tx]
                 ELSE LET r == handle_unreliable_data(packet, addr)
                      IN  [clients |-> cl,
                           server_stats |-> [st EXCEPT !.rx_unreliable = @ + 1],
                           server_log |-> LogAll(server_log, r.events),
                           recv_log |-> [recv_log EXCEPT ![addr] = @ \o r.out],
                           tx |-> <<>>]

\* ServerProtocol.datagram_received, as a function of the server's state:
\* the new clients, stats, log and recv_cb calls, and tx, its send_raw calls
server_datagram_received(data, addr) ==
    LET packet == decode_packet(data)
        same == [clients |-> clients, server_stats |-> server_stats,
                 server_log |-> server_log, recv_log |-> recv_log, tx |-> <<>>]
    IN  IF packet = None THEN same
        ELSE LET cl == IF addr \in DOMAIN clients THEN clients
                       ELSE Put(clients, addr, ClientState)
                 st == [server_stats EXCEPT !.rx_total = @ + 1]
             IN  IF is_ack(packet.header)
                 THEN [same EXCEPT !.clients = cl, !.server_stats = st]
                 ELSE IF packet.header.channel = RELIABLE
                 THEN LET r == handle_reliable_data(packet, addr, cl[addr])
                      IN  [clients |-> [cl EXCEPT ![addr] = r.cs],
                           server_stats |-> [st EXCEPT !.rx_reliable = @ + 1],
                           server_log |-> LogAll(server_log, r.events),
                           recv_log |-> [recv_log EXCEPT ![addr] = @ \o r.out],
                           tx |-> r.tx]
                 ELSE LET r == handle_unreliable_data(packet, addr)
                      IN  [clients |-> cl,
                           server_stats |-> [st EXCEPT !.rx_unreliable = @ + 1],
                           server_log |-> LogAll(server_log, r.events),
                           recv_log |-> [recv_log EXCEPT ![addr] = @ \o r.out],
                           tx |-> <<>>]

\* the server's socket reads one datagram from addr; sent is what s2c holds before
ServerReceive(data, addr, inflight) ==
    \E r \in { server_datagram_received(data, addr) } :
        /\ clients' = r.clients
        /\ server_stats' = r.server_stats
        /\ server_log' = r.server_log
        /\ recv_log' = r.recv_log
        /\ s2c' = inflight \o r.tx
        /\ rx_calls' = rx_calls + 1

\* the body of _gap_checker's for loop, for one peer
\* [cs, out, events, skips]
GapCandidates(client_state) ==
    { i \in 1 .. recv_window_size - 1 :
        (client_state.expected_seq + i) % SeqMod \in DOMAIN client_state.recv_buffer }

Min(S) == CHOOSE x \in S : \A y \in S : x <= y

NextSeq(client_state) ==
    (client_state.expected_seq + Min(GapCandidates(client_state))) % SeqMod

gap_check(addr, client_state) ==
    LET nothing == [cs |-> client_state, out |-> <<>>, events |-> <<>>, skips |-> 0]
        missing_seq == client_state.expected_seq
    IN  IF missing_seq \notin DOMAIN client_state.gap_first_seen THEN nothing
        ELSE LET waited_ms == TimeSub(get_time_ms,
                                           client_state.gap_first_seen[missing_seq])
             IN  IF ~ IntGE(waited_ms, gap_skip_timeout_ms) THEN nothing
                 ELSE IF GapCandidates(client_state) = {} THEN nothing
                 ELSE LET next == NextSeq(client_state)
                          r == deliver_in_order(
                                   [client_state EXCEPT
                                       !.expected_seq = next,
                                       !.gap_first_seen = Remove(@, missing_seq)],
                                   TRUE)
                      IN  [cs |-> r.cs, out |-> r.out,
                           events |-> << Event("skip_gap", addr, missing_seq, next) >>
                                      \o DeliverEvents(addr, r.out),
                           skips |-> 1]

RECURSIVE SumOver(_, _)
SumOver(S, f) ==
    IF S = {} THEN 0
    ELSE LET x == CHOOSE y \in S : TRUE IN f[x] + SumOver(S \ {x}, f)

RECURSIVE LogPeers(_, _, _)
LogPeers(bag, S, ev) ==
    IF S = {} THEN bag
    ELSE LET x == CHOOSE y \in S : TRUE
         IN  LogPeers(LogAll(bag, ev[x]), S \ {x}, ev)

\* one iteration of _gap_checker after its sleep
GapTick ==
    /\ ~ server_closed
    /\ \E r \in { [a \in DOMAIN clients |-> gap_check(a, clients[a])] } :
           /\ clients' = [a \in DOMAIN clients |-> r[a].cs]
           /\ recv_log' = [a \in Peers |->
                              IF a \in DOMAIN clients THEN recv_log[a] \o r[a].out
                              ELSE recv_log[a]]
           /\ server_log' = LogPeers(server_log, DOMAIN clients,
                                     [a \in DOMAIN clients |-> r[a].events])
           /\ server_stats' = [server_stats EXCEPT !.skip_count =
                                 @ + SumOver(DOMAIN clients,
                                             [a \in DOMAIN clients |-> r[a].skips])]
    /\ UNCHANGED << now_ms, ticks, netVars, clientVars, server_closed, rx_calls >>
    /\ UNCHANGED call
    /\ UNCHANGED api

\* ServerProtocol.close
ServerClose ==
    /\ ~ server_closed
    /\ server_closed' = TRUE
    /\ UNCHANGED << now_ms, ticks, netVars, clientVars,
                    clients, rx_calls, server_stats, server_log, recv_log >>
    /\ UNCHANGED call
    /\ UNCHANGED api

\* a millisecond passes
Tick ==
    /\ ticks < MaxTicks
    /\ ticks' = ticks + 1
    /\ now_ms' = TimeSucc(now_ms)
    /\ UNCHANGED << netVars, clientVars, serverVars >>
    /\ UNCHANGED call
    /\ UNCHANGED api

(***************************************************************************)
(* Client: reliable send engine.                                           *)
(***************************************************************************)
\* last_sent_ms is written and never read; it is left out
\* a send_buffer entry that does not keep the payload
SendBufferEntry_blank(payload, first_sent_ms, retx_count) ==
    [payload |-> <<>>, first_sent_ms |-> first_sent_ms, retx_count |-> retx_count]

SendBufferEntry(payload, first_sent_ms, retx_count) ==
    [payload |-> payload, first_sent_ms |-> first_sent_ms, retx_count |-> retx_count]

\* a counter that is not reduced modulo 2^16
seq_succ_unwrapped(seq) == seq + 1

\* the sequence number after seq: (seq + 1) % 65536
seq_succ(seq) == (seq + 1) % SeqMod

\* a size check that also rejects a payload that just fits
TooLarge_inclusive(payload) == Len(payload) + HEADER_SIZE >= mtu

\* the size check of send_reliable and of send_unreliable
TooLarge(payload) == Len(payload) + HEADER_SIZE > mtu

\* an Event.set() after which the waiting callers fail
WakeWaiters_raising(cs) ==
    [c \in DOMAIN cs |->
        IF cs[c].pc = "waiting" THEN [cs[c] EXCEPT !.pc = "raised"] ELSE cs[c]]

\* an Event.set() that wakes nobody
WakeWaiters_none(cs) == cs

\* asyncio.Event.set() resolves the future of every coroutine waiting on the
\* event; each resumes later, in its own step of the loop
WakeWaiters(cs) ==
    [c \in DOMAIN cs |->
        IF cs[c].pc = "waiting" THEN [cs[c] EXCEPT !.pc = "ready"] ELSE cs[c]]

\* asyncio.create_task(self._retx_timer(seq)): the task sleeps retx_timeout_ms
\* of elapsed time before it runs on
RetxTask(seq) == [seq |-> seq, due |-> ticks + retx_timeout_ms]

\* a window test that admits one entry too many
WindowOpen_inclusive == Cardinality(DOMAIN send_buffer) <= send_window_size

\* the window test of send_reliable
WindowOpen == Cardinality(DOMAIN send_buffer) < send_window_size

\* send_reliable after window admission: allocate, buffer, transmit, arm
Transmit(c, payload) ==
    LET seq == next_seq
        now == get_time_ms
    IN  /\ next_seq' = seq_succ(next_seq)
        /\ send_buffer' = Put(send_buffer, seq, SendBufferEntry(payload, now, 0))
        /\ c2s' = Append(c2s, encode_packet(RELIABLE, FLAG_NONE, seq, now, payload))
        /\ client_stats' = [client_stats EXCEPT !.tx_total = @ + 1,
                                                !.tx_reliable = @ + 1]
        /\ client_log' = LogAll(client_log, << Event("tx_data", ClientAddr, seq, 0) >>)
        /\ retx_tasks' = retx_tasks \cup {seq}
        /\ timers' = timers (+) SetToBag({RetxTask(seq)})
        /\ callers' = [callers EXCEPT ![c] = [pc |-> "done", payload |-> payload,
                                              seq |-> seq]]
        /\ UNCHANGED << unrel_seq, unrel_calls, window_available, closed, client_recv >>

\* send_reliable from the top of its while loop: transmit, or clear the event
\* and suspend in window_available.wait()
SendLoop(c, payload) ==
    IF WindowOpen
    THEN Transmit(c, payload)
    ELSE /\ window_available' = FALSE
         /\ callers' = [callers EXCEPT ![c] = [pc |-> "waiting", payload |-> payload,
                                               seq |-> -1]]
         /\ UNCHANGED << next_seq, unrel_seq, unrel_calls, send_buffer, c2s,
                            client_stats, client_log,
                         retx_tasks, timers, closed, client_recv >>

\* the application calls send_reliable(payload); the calls are numbered in the
\* order they are made
SendReliable(c, payload) ==
    /\ callers[c].pc = "idle"
    /\ \A b \in 1 .. c - 1 : callers[b].pc # "idle"
    /\ IF TooLarge(payload)
       THEN /\ callers' = [callers EXCEPT ![c] = [pc |-> "raised", payload |-> payload,
                                                  seq |-> -1]]
            /\ UNCHANGED << next_seq, unrel_seq, unrel_calls, send_buffer, c2s,
                            client_stats, client_log,
                            retx_tasks, timers, window_available, closed, client_recv >>
       ELSE SendLoop(c, payload)
    /\ UNCHANGED << now_ms, ticks, s2c, serverVars >>
    /\ UNCHANGED call
    /\ UNCHANGED api

\* a woken caller that goes back to the window test without looking at closed
Resume_ignoring_close(c) ==
    /\ callers[c].pc = "ready"
    /\ SendLoop(c, callers[c].payload)
    /\ UNCHANGED << now_ms, ticks, s2c, serverVars >>
    /\ UNCHANGED call
    /\ UNCHANGED api

\* a caller woken from window_available.wait() runs on
Resume(c) ==
    /\ callers[c].pc = "ready"
    /\ IF closed
       THEN /\ callers' = [callers EXCEPT ![c].pc = "returned"]
            /\ UNCHANGED << next_seq, unrel_seq, unrel_calls, send_buffer, c2s,
                            client_stats, client_log,
                            retx_tasks, timers, window_available, closed, client_recv >>
       ELSE SendLoop(c, callers[c].payload)
    /\ UNCHANGED << now_ms, ticks, s2c, serverVars >>
    /\ UNCHANGED call
    /\ UNCHANGED api

\* send_unreliable(payload): no await, so the whole call is one step; the
\* outcome the caller sees is recorded in unrel_calls.  tx_data info 2 stands
\* for channel UNRELIABLE (0 and 1 are the reliable first copy and retx)
SendUnreliable(payload) ==
    /\ Len(unrel_calls) < MaxUnrel
    /\ IF TooLarge(payload)
       THEN /\ unrel_calls' = Append(unrel_calls,
                                     [payload |-> payload, outcome |-> "raised", seq |-> -1])
            /\ UNCHANGED << unrel_seq, c2s, client_stats, client_log >>
       ELSE LET seq == unrel_seq
                now == get_time_ms
            IN  /\ unrel_seq' = seq_succ(unrel_seq)
                /\ c2s' = Append(c2s, encode_packet(UNRELIABLE, FLAG_NONE, seq, now,
                                                    payload))
                /\ client_stats' = [client_stats EXCEPT !.tx_total = @ + 1,
                                                        !.tx_unreliable = @ + 1]
                /\ client_log' = LogAll(client_log,
                                        << Event("tx_data", ClientAddr, seq, 2) >>)
                /\ unrel_calls' = Append(unrel_calls,
                                         [payload |-> payload, outcome |-> "sent",
                                          seq |-> seq])
    /\ UNCHANGED << now_ms, ticks, s2c, next_seq, send_buffer, retx_tasks, timers,
                    window_available, closed, callers, client_recv, serverVars >>
    /\ UNCHANGED call
    /\ UNCHANGED api

\* a budget test that allows one retransmission more
RetxExhausted_late(entry) == entry.retx_count > max_retx

\* the budget test of _retx_timer
RetxExhausted(entry) == entry.retx_count >= max_retx

\* _retx_timer(seq) after its sleep
RetxTimer(seq) ==
    \E task \in BagToSet(timers) :
    /\ task.seq = seq
    /\ ticks >= task.due
    /\ IF seq \in DOMAIN send_buffer
       THEN LET entry == send_buffer[seq]
                now == get_time_ms
            IN  IF RetxExhausted(entry)
                THEN /\ client_log' = LogAll(client_log,
                                         << Event("drop_max_retx", ClientAddr, seq, 0) >>)
                     /\ send_buffer' = Remove(send_buffer, seq)
                     /\ retx_tasks' = retx_tasks \ {seq}
                     /\ timers' = timers (-) SetToBag({task})
                     /\ window_available' = TRUE
                     /\ callers' = WakeWaiters(callers)
                     /\ UNCHANGED << c2s, client_stats >>
                ELSE /\ send_buffer' = [send_buffer EXCEPT ![seq].retx_count = @ + 1]
                     /\ c2s' = Append(c2s, encode_packet(RELIABLE, FLAG_RETX, seq, now,
                                                         entry.payload))
                     /\ client_stats' = [client_stats EXCEPT !.retx_count = @ + 1]
                     /\ client_log' = LogAll(client_log,
                           << Event("retx", ClientAddr, seq, entry.retx_count + 1),
                              Event("tx_data", ClientAddr, seq, 1) >>)
                     /\ retx_tasks' = retx_tasks \cup {seq}
                     /\ timers' = (timers (-) SetToBag({task})) (+) SetToBag({RetxTask(seq)})
                     /\ UNCHANGED << window_available, callers >>
       ELSE /\ timers' = timers (-) SetToBag({task})
            /\ UNCHANGED << send_buffer, c2s, client_stats, client_log, retx_tasks,
                            window_available, callers >>
    /\ UNCHANGED << now_ms, ticks, s2c, next_seq, unrel_seq, unrel_calls, closed,
                    client_recv, serverVars >>
    /\ UNCHANGED call
    /\ UNCHANGED api

\* a cancel() that leaves the task pending
Cancel_none(bag, seq) == bag

\* Task.cancel() on the task retx_tasks holds for seq, the last one created for it
Cancel(bag, seq) ==
    LET tasks == { t \in BagToSet(bag) : t.seq = seq }
    IN  IF tasks = {} THEN bag
        ELSE bag (-) SetToBag({ CHOOSE t \in tasks : \A u \in tasks : u.due <= t.due })

RECURSIVE CancelAll(_, _)
CancelAll(bag, seqs) ==
    IF seqs = {} THEN bag
    ELSE LET seq == CHOOSE x \in seqs : TRUE
         IN  CancelAll(Cancel(bag, seq), seqs \ {seq})

\* the client's state as a record, for its pure handlers
ClientSame ==
    [send_buffer |-> send_buffer, retx_tasks |-> retx_tasks, timers |-> timers,
     window_available |-> window_available, callers |-> callers,
     client_stats |-> client_stats, client_log |-> client_log,
     client_recv |-> client_recv, tx |-> <<>>]

\* a _handle_ack that logs the ACK and leaves the entry in send_buffer
ack_entry_keeping(st, seq) ==
    [st EXCEPT
       !.client_log = LogAll(@, << Event("ack_rx", ClientAddr, seq, 0) >>),
       !.window_available = TRUE,
       !.callers = WakeWaiters(@)]

\* _handle_ack once seq is found in send_buffer
ack_entry(st, seq) ==
    LET entry == st.send_buffer[seq]
        rtt_ms == TimeSub(get_time_ms, entry.first_sent_ms)
        samples == Append(st.client_stats.rtt_samples, rtt_ms)
    IN  [st EXCEPT
           !.client_stats.rtt_samples =
               IF Len(samples) > 100 THEN Tail(samples) ELSE samples,
           !.client_log = LogAll(@, << Event("ack_rx", ClientAddr, seq, 0) >>),
           !.send_buffer = Remove(@, seq),
           !.timers = IF seq \in st.retx_tasks THEN Cancel(@, seq) ELSE @,
           !.retx_tasks = @ \ {seq},
           !.window_available = TRUE,
           !.callers = WakeWaiters(@)]

\* a _handle_ack that reports the ACK and leaves the entry and its timer
handle_ack_reporting(st, header) ==
    IF header.seq \in DOMAIN st.send_buffer
    THEN [st EXCEPT !.client_log =
             LogAll(@, << Event("ack_rx", ClientAddr, header.seq, 0) >>)]
    ELSE st

\* a _handle_ack that signals the window for an ACK that matches nothing
handle_ack_signalling(st, header) ==
    IF header.seq \in DOMAIN st.send_buffer
    THEN ack_entry(st, header.seq)
    ELSE [st EXCEPT !.window_available = TRUE, !.callers = WakeWaiters(@)]

\* a _handle_ack that logs ack_rx for an ACK that matches nothing
handle_ack_stray(st, header) ==
    IF header.seq \in DOMAIN st.send_buffer
    THEN ack_entry(st, header.seq)
    ELSE [st EXCEPT !.client_log =
             LogAll(@, << Event("ack_rx", ClientAddr, header.seq, 0) >>)]

\* _handle_ack, on the state st
handle_ack(st, header) ==
    IF header.seq \in DOMAIN st.send_buffer
    THEN ack_entry(st, header.seq)
    ELSE st

\* ClientProtocol.datagram_received: the new client state and tx, its send_raw calls
client_datagram_received(data) ==
    LET packet == decode_packet(data)
    IN  IF packet = None THEN ClientSame
        ELSE LET st == [ClientSame EXCEPT !.client_stats.rx_total = @ + 1]
                 seq == packet.header.seq
             IN  IF is_ack(packet.header) THEN handle_ack(st, packet.header)
                 ELSE IF packet.header.channel = RELIABLE
                 THEN [st EXCEPT
                         !.client_stats.rx_reliable = @ + 1,
                         !.tx = << make_ack_packet(seq, get_time_ms) >>,
                         !.client_log = LogAll(@,
                             << Event("rx_data", ClientAddr, seq, RELIABLE),
                                Event("ack_tx", ClientAddr, seq, 0),
                                Event("deliver", ClientAddr, seq, 0) >>),
                         !.client_recv = Append(@,
                             [channel |-> "RELIABLE", seq |-> seq,
                              ts_ms |-> packet.header.ts_ms,
                              payload |-> packet.payload, skipped |-> FALSE])]
                 ELSE [st EXCEPT
                         !.client_stats.rx_unreliable = @ + 1,
                         !.client_log = LogAll(@,
                             << Event("rx_data", ClientAddr, seq, UNRELIABLE),
                                Event("deliver", ClientAddr, seq, 0) >>),
                         !.client_recv = Append(@,
                             [channel |-> "UNRELIABLE", seq |-> seq,
                              ts_ms |-> packet.header.ts_ms,
                              payload |-> packet.payload, skipped |-> FALSE])]

\* ClientProtocol.close
ClientClose ==
    /\ ~ closed
    /\ closed' = TRUE
    /\ timers' = CancelAll(timers, retx_tasks)
    /\ retx_tasks' = {}
    /\ window_available' = TRUE
    /\ callers' = WakeWaiters(callers)
    /\ UNCHANGED << now_ms, ticks, netVars, next_seq, unrel_seq, unrel_calls,
                    send_buffer, client_stats,
                    client_log, client_recv, serverVars >>
    /\ UNCHANGED call
    /\ UNCHANGED api

(***************************************************************************)
(* The network between the client and the server: a FIFO queue in each     *)
(* direction that may lose datagrams.  Duplicated, reordered and forged    *)
(* arrivals are covered by SpecServer and SpecClient, where any datagram   *)
(* may arrive at any time.                                                 *)
(***************************************************************************)
C2SDeliver ==
    /\ c2s # <<>>
    /\ ServerReceive(Head(c2s), ClientAddr, s2c)
    /\ c2s' = Tail(c2s)
    /\ UNCHANGED << now_ms, ticks, clientVars, server_closed >>
    /\ UNCHANGED call
    /\ UNCHANGED api

C2SLose ==
    /\ c2s # <<>>
    /\ c2s' = Tail(c2s)
    /\ UNCHANGED << now_ms, ticks, s2c, clientVars, serverVars >>
    /\ UNCHANGED call
    /\ UNCHANGED api

\* the client's socket reads one datagram; rest is what stays in flight
ClientReceive(data) ==
    \E r \in { client_datagram_received(data) } :
        /\ send_buffer' = r.send_buffer
        /\ retx_tasks' = r.retx_tasks
        /\ timers' = r.timers
        /\ window_available' = r.window_available
        /\ callers' = r.callers
        /\ client_stats' = r.client_stats
        /\ client_log' = r.client_log
        /\ client_recv' = r.client_recv
        /\ c2s' = c2s \o r.tx
        /\ UNCHANGED << next_seq, unrel_seq, unrel_calls, closed >>

S2CDeliver ==
    /\ s2c # <<>>
    /\ IF Head(s2c).to = ClientAddr
       THEN ClientReceive(Head(s2c).data)
       ELSE UNCHANGED << clientVars, c2s >>
    /\ s2c' = Tail(s2c)
    /\ UNCHANGED << now_ms, ticks, serverVars >>
    /\ UNCHANGED call
    /\ UNCHANGED api

S2CLose ==
    /\ s2c # <<>>
    /\ s2c' = Tail(s2c)
    /\ UNCHANGED << now_ms, ticks, c2s, clientVars, serverVars >>
    /\ UNCHANGED call
    /\ UNCHANGED api

(***************************************************************************)
(* The client alone, under arbitrary ACK arrivals (late, duplicated, for a *)
(* seq never sent); what it transmits is dropped by the network.           *)
(***************************************************************************)
\* the datagrams with the ACK bit set that can arrive for seq: the ACK a peer
\* builds, and ACK-flagged datagrams of either channel that carry a payload
AckFlagged(seq, ts_ms) ==
    { make_ack_packet(seq, ts_ms),
      encode_packet(UNRELIABLE, FLAG_ACK, seq, ts_ms, <<1>>),
      encode_packet(RELIABLE, FLAG_ACK + FLAG_RETX, seq, ts_ms, <<2>>) }

AckInject(seq) ==
    /\ client_stats.rx_total < MaxRx
    /\ \E data \in AckFlagged(seq, get_time_ms) : ClientReceive(data)
    /\ UNCHANGED << now_ms, ticks, s2c, serverVars >>
    /\ UNCHANGED call
    /\ UNCHANGED api

(***************************************************************************)
(* The server alone, under arbitrary arrivals: any peer, any sequence      *)
(* number, duplicates and reordering included.  The ACKs of a step stay in *)
(* s2c until the next arrival (the network then loses them).               *)
(***************************************************************************)
Datagrams(addr) ==
    IF addr = ClientAddr
    THEN { encode_packet(RELIABLE, FLAG_NONE, s, Zero, p) :
              s \in 0 .. MaxSeq, p \in Payloads }
         \cup { encode_packet(RELIABLE, FLAG_RETX, 0, Zero, <<1>>),
                encode_packet(UNRELIABLE, FLAG_NONE, 0, Zero, <<1>>),
                encode_packet(UNRELIABLE, FLAG_NONE, 1, Zero, <<2>>),
                encode_packet(2, FLAG_NONE, 2, Zero, <<1>>),
                make_ack_packet(0, Zero),
                [i \in 1 .. HEADER_SIZE - 1 |-> 1] }
         \cup AckFlagged(0, Zero)
    ELSE { encode_packet(RELIABLE, FLAG_NONE, s, Zero, <<1>>) : s \in 0 .. 1 }
         \cup { <<>>, [i \in 1 .. HEADER_SIZE - 1 |-> 0] }

ServerInject(addr, data) ==
    /\ rx_calls < MaxRx
    /\ ServerReceive(data, addr, <<>>)
    /\ UNCHANGED << now_ms, ticks, c2s, clientVars, server_closed >>
    /\ UNCHANGED call
    /\ UNCHANGED api

Init ==
    /\ now_ms \in StartTimes
    /\ ticks = 0
    /\ c2s = <<>>
    /\ s2c = <<>>
    /\ next_seq = 0
    /\ unrel_seq = 0
    /\ unrel_calls = <<>>
    /\ send_buffer = EmptyMap
    /\ retx_tasks = {}
    /\ timers = EmptyBag
    /\ window_available = TRUE
    /\ closed = FALSE
    /\ callers = [c \in 1 .. MaxSends |-> [pc |-> "idle", payload |-> <<>>, seq |-> -1]]
    /\ client_stats = [tx_total |-> 0, tx_reliable |-> 0, tx_unreliable |-> 0,
                       rx_total |-> 0,
                       rx_reliable |-> 0, rx_unreliable |-> 0, retx_count |-> 0,
                       rtt_samples |-> <<>>]
    /\ client_log = EmptyBag
    /\ client_recv = <<>>
    /\ clients = EmptyMap
    /\ server_closed = FALSE
    /\ rx_calls = 0
    /\ server_stats = [rx_total |-> 0, rx_reliable |-> 0, rx_unreliable |-> 0,
                       skip_count |-> 0]
    /\ server_log = EmptyBag
    /\ recv_log = [a \in Peers |-> <<>>]
    /\ call = NoCall
    /\ api = ApiInit

NextServer ==
    \/ \E addr \in Peers : \E data \in Datagrams(addr) : ServerInject(addr, data)
    \/ GapTick
    \/ Tick
    \/ ServerClose

SpecServer == Init /\ [][NextServer]_vars

Calls ==
    \E c \in 1 .. MaxSends : \E payload \in PayloadsOf(c) : SendReliable(c, payload)

Next ==
    \/ Calls
    \/ \E c \in 1 .. MaxSends : Resume(c)
    \/ \E seq \in 0 .. MaxSends - 1 : RetxTimer(seq)
    \/ ClientClose
    \/ C2SDeliver
    \/ C2SLose
    \/ S2CDeliver
    \/ S2CLose
    \/ GapTick
    \/ Tick

Spec == Init /\ [][Next]_vars

NextClient ==
    \/ Calls
    \/ \E c \in 1 .. MaxSends : Resume(c)
    \/ \E seq \in 0 .. MaxSends - 1 : RetxTimer(seq)
    \/ ClientClose
    \/ \E seq \in 0 .. MaxSends - 1 : AckInject(seq)
    \/ C2SLose
    \/ Tick

SpecClient == Init /\ [][NextClient]_vars

(***************************************************************************)
(* Both endpoints under ACK-flagged arrivals: the client sends and is      *)
(* handed ACK-flagged datagrams of every shape; the server is handed       *)
(* reliable data and ACK-flagged datagrams from two peers.                 *)
(***************************************************************************)
FlagDatagrams(addr) ==
    IF addr = ClientAddr
    THEN { encode_packet(RELIABLE, FLAG_NONE, s, Zero, <<1>>) : s \in 0 .. 1 }
         \cup AckFlagged(0, Zero) \cup AckFlagged(1, Zero)
    ELSE { encode_packet(RELIABLE, FLAG_NONE, 1, Zero, <<1>>) }
         \cup AckFlagged(1, Zero)

NextFlags ==
    \/ Calls
    \/ \E c \in 1 .. MaxSends : Resume(c)
    \/ \E seq \in 0 .. MaxSends - 1 : AckInject(seq)
    \/ C2SLose
    \/ \E addr \in Peers : \E data \in FlagDatagrams(addr) : ServerInject(addr, data)

SpecFlags == Init /\ [][NextFlags]_vars

(***************************************************************************)
(* The client's send API under payloads of every size around the limit: a  *)
(* payload that just fits (len + HEADER_SIZE = mtu) and one that is a byte *)
(* too long, on both channels, with ACK arrivals and close.                *)
(***************************************************************************)
SizedPayloads(c) ==
    { [i \in 1 .. n |-> c] : n \in { mtu - HEADER_SIZE, mtu - HEADER_SIZE + 1 } }

CallsSized ==
    \E c \in 1 .. MaxSends : \E payload \in SizedPayloads(c) : SendReliable(c, payload)

NextApi ==
    \/ CallsSized
    \/ \E payload \in SizedPayloads(0) : SendUnreliable(payload)
    \/ \E c \in 1 .. MaxSends : Resume(c)
    \/ \E seq \in 0 .. MaxSends - 1 : AckInject(seq)
    \/ ClientClose
    \/ C2SLose

SpecApi == Init /\ [][NextApi]_vars

(***************************************************************************)
(* GameNetAPIClient.send() called concurrently on a fresh client.  Each    *)
(* step is the run of one coroutine between two suspensions.  No time      *)
(* passes and no datagram arrives: a reliable send that finds the window   *)
(* full stays in window_available.wait().                                  *)
(***************************************************************************)
\* asyncio.Lock.release(): unlock, and resolve the future of the first waiter
Release(a) ==
    [a EXCEPT !.locked = FALSE,
              !.tasks = IF a.waiters = <<>> THEN @
                        ELSE [@ EXCEPT ![Head(a.waiters)].pc = "woken"]]

\* send() once _ensure_initialized has returned: self.protocol.send_reliable
\* or self.protocol.send_unreliable, up to its first suspension
UseProtocol(a, c) ==
    LET p == a.protocol
    IN  IF p = 0 THEN [a EXCEPT !.tasks[c].pc = "raised"]
        ELSE IF a.tasks[c].reliable
        THEN IF a.endpoints[p].in_flight < send_window_size
             THEN [a EXCEPT !.endpoints[p].next_seq = seq_succ(@),
                            !.endpoints[p].in_flight = @ + 1,
                            !.tasks[c].pc = "sent",
                            !.tasks[c].protocol = p,
                            !.tasks[c].seq = a.endpoints[p].next_seq]
             ELSE [a EXCEPT !.tasks[c].pc = "window_wait",
                            !.tasks[c].protocol = p]
        ELSE [a EXCEPT !.endpoints[p].unrel_seq = seq_succ(@),
                       !.tasks[c].pc = "sent",
                       !.tasks[c].protocol = p,
                       !.tasks[c].seq = a.endpoints[p].unrel_seq]

\* an _ensure_initialized that does not look at _initialized under the lock
SecondCheck_absent(a) == FALSE

\* the test of _initialized under the lock
SecondCheck(a) == a.initialized

\* the body of `async with self._init_lock`, entered by c, up to the await of
\* create_datagram_endpoint (which has called the protocol factory)
InitLocked(a, c) ==
    IF SecondCheck(a) THEN UseProtocol(Release(a), c)
    ELSE [a EXCEPT !.endpoints = Append(@, ProtocolInstance),
                   !.tasks[c].pc = "creating",
                   !.tasks[c].endpoint = Len(a.endpoints) + 1]

\* a send() task starts: the first test of _initialized, then the lock
ApiSend(c, reliable) ==
    /\ api.tasks[c].pc = "idle"
    /\ LET a == [api EXCEPT !.tasks[c].reliable = reliable]
       IN  api' = IF a.initialized THEN UseProtocol(a, c)
                  ELSE IF ~ a.locked /\ a.waiters = <<>>
                  THEN InitLocked([a EXCEPT !.locked = TRUE], c)
                  ELSE [a EXCEPT !.waiters = Append(@, c),
                                 !.tasks[c].pc = "waiting",
                                 !.tasks[c].waited = TRUE]
    /\ UNCHANGED << now_ms, ticks, netVars, clientVars, serverVars, call >>

\* create_datagram_endpoint returns to the task that awaited it
EndpointCreated(c) ==
    /\ api.tasks[c].pc = "creating"
    /\ api' = UseProtocol(Release([api EXCEPT !.protocol = api.tasks[c].endpoint,
                                               !.initialized = TRUE]), c)
    /\ UNCHANGED << now_ms, ticks, netVars, clientVars, serverVars, call >>

\* a task woken by release() runs on: it leaves the waiters and takes the lock
LockAcquired(c) ==
    /\ api.tasks[c].pc = "woken"
    /\ api' = InitLocked([api EXCEPT !.waiters = SelectSeq(@, LAMBDA w : w # c),
                                     !.locked = TRUE], c)
    /\ UNCHANGED << now_ms, ticks, netVars, clientVars, serverVars, call >>

NextEndpoint ==
    \/ \E c \in 1 .. MaxSends : \E reliable \in BOOLEAN : ApiSend(c, reliable)
    \/ \E c \in 1 .. MaxSends : EndpointCreated(c)
    \/ \E c \in 1 .. MaxSends : LockAcquired(c)

SpecEndpoint == Init /\ [][NextEndpoint]_vars

(***************************************************************************)
(* The send API of an endpoint whose counters are about to wrap: on each   *)
(* channel the endpoint is either new or has made SeqMod - 1 sends.  The   *)
(* earlier reliable packets were never acknowledged: each was              *)
(* retransmitted max_retx times and dropped, so send_buffer is empty and   *)
(* no timer is pending.  client_log holds the events from this state on.   *)
(***************************************************************************)
StartSeqs == { 0, SeqMod - 1 }

InitSeq ==
    /\ now_ms = Zero
    /\ ticks = 0
    /\ c2s = <<>>
    /\ s2c = <<>>
    /\ next_seq \in StartSeqs
    /\ unrel_seq \in StartSeqs
    /\ unrel_calls = <<>>
    /\ send_buffer = EmptyMap
    /\ retx_tasks = {}
    /\ timers = EmptyBag
    /\ window_available = TRUE
    /\ closed = FALSE
    /\ callers = [c \in 1 .. MaxSends |-> [pc |-> "idle", payload |-> <<>>, seq |-> -1]]
    /\ client_stats = [tx_total |-> next_seq + unrel_seq, tx_reliable |-> next_seq,
                       tx_unreliable |-> unrel_seq, rx_total |-> 0,
                       rx_reliable |-> 0, rx_unreliable |-> 0,
                       retx_count |-> next_seq * max_retx, rtt_samples |-> <<>>]
    /\ client_log = EmptyBag
    /\ client_recv = <<>>
    /\ clients = EmptyMap
    /\ server_closed = FALSE
    /\ rx_calls = 0
    /\ server_stats = [rx_total |-> 0, rx_reliable |-> 0, rx_unreliable |-> 0,
                       skip_count |-> 0]
    /\ server_log = EmptyBag
    /\ recv_log = [a \in Peers |-> <<>>]
    /\ call = NoCall
    /\ api = ApiInit

SpecSeq == InitSeq /\ [][NextApi]_vars

(***************************************************************************)
(* The pure helpers of common.py, called on arguments from both ends and   *)
(* the middle of their ranges.  call holds one call: its arguments and,    *)
(* once it has returned, its value.  The bytes encode_packet returns can   *)
(* then be handed to decode_packet.                                        *)
(***************************************************************************)
SeqSamples ==
    { 0, 1, 2, 255, 256, SeqMod \div 2 - 1, SeqMod \div 2, SeqMod \div 2 + 1,
      SeqMod - 2, SeqMod - 1 }

TimeSamples ==
    { Zero, [hi |-> 1, lo |-> 256], [hi |-> Limb - 1, lo |-> Limb - 1] }

CodecPayloads == { <<>>, <<1>>, <<255, 0>> }

WindowSamples == { 0, 1, 2, 3 }

PureCalls ==
    { [fn |-> "encode_packet", args |-> <<c, f, s, t, p>>, ret |-> <<>>] :
          c \in { UNRELIABLE, RELIABLE }, f \in 0 .. 7,
          s \in { 0, 255, 256, SeqMod - 1 }, t \in TimeSamples, p \in CodecPayloads }
    \cup { [fn |-> "seq_lt", args |-> <<a, b>>, ret |-> <<>>] :
               a \in SeqSamples, b \in SeqSamples }
    \cup { [fn |-> "seq_in_window", args |-> <<s, base, w>>, ret |-> <<>>] :
               s \in SeqSamples, base \in SeqSamples, w \in WindowSamples }

Apply(fn, args) ==
    CASE fn = "encode_packet" ->
             encode_packet(args[1], args[2], args[3], args[4], args[5])
      [] fn = "seq_lt" -> seq_lt(args[1], args[2])
      [] fn = "seq_in_window" -> seq_in_window(args[1], args[2], args[3])

InitPure ==
    /\ now_ms = Zero
    /\ ticks = 0
    /\ c2s = <<>>
    /\ s2c = <<>>
    /\ next_seq = 0
    /\ unrel_seq = 0
    /\ unrel_calls = <<>>
    /\ send_buffer = EmptyMap
    /\ retx_tasks = {}
    /\ timers = EmptyBag
    /\ window_available = TRUE
    /\ closed = FALSE
    /\ callers = [c \in 1 .. MaxSends |-> [pc |-> "idle", payload |-> <<>>, seq |-> -1]]
    /\ client_stats = [tx_total |-> 0, tx_reliable |-> 0, tx_unreliable |-> 0,
                       rx_total |-> 0,
                       rx_reliable |-> 0, rx_unreliable |-> 0, retx_count |-> 0,
                       rtt_samples |-> <<>>]
    /\ client_log = EmptyBag
    /\ client_recv = <<>>
    /\ clients = EmptyMap
    /\ server_closed = FALSE
    /\ rx_calls = 0
    /\ server_stats = [rx_total |-> 0, rx_reliable |-> 0, rx_unreliable |-> 0,
                       skip_count |-> 0]
    /\ server_log = EmptyBag
    /\ recv_log = [a \in Peers |-> <<>>]
    /\ call \in PureCalls
    /\ api = ApiInit

\* the helper returns
Return ==
    /\ call.fn \in { "encode_packet", "seq_lt", "seq_in_window" }
    /\ call.ret = <<>>
    /\ call' = [call EXCEPT !.ret = << Apply(call.fn, call.args) >>]
    /\ UNCHANGED << now_ms, ticks, netVars, clientVars, serverVars >>
    /\ UNCHANGED api

\* decode_packet is called on the bytes encode_packet returned, and returns
DecodeEncoded ==
    /\ call.fn = "encode_packet"
    /\ call.ret # <<>>
    /\ call' = [fn |-> "decode_packet", args |-> << call.ret[1] >>,
                ret |-> << decode_packet(call.ret[1]) >>]
    /\ UNCHANGED << now_ms, ticks, netVars, clientVars, serverVars >>
    /\ UNCHANGED api

NextPure ==
    \/ Return
    \/ DecodeEncoded

SpecPure == InitPure /\ [][NextPure]_vars

(***************************************************************************)
(* The server after one peer's reliable stream has run for SeqMod - 2      *)
(* packets, all delivered in order: delivered_seqs holds every seq but the *)
(* last two, expected_seq is the last but one seq of the cycle and is      *)
(* stamped as the head of line.  The next arrivals are the last two        *)
(* packets of the cycle and the first two of the next one.  In one start   *)
(* state every packet so far was delivered; in the other seq 0 was lost    *)
(* and skipped at the start of the stream, so it is not in delivered_seqs. *)
(* server_log and recv_log hold the events and deliveries from this state  *)
(* on.                                                                     *)
(***************************************************************************)
WrapDatagrams ==
    { encode_packet(RELIABLE, FLAG_NONE, s, Zero, <<1>>) :
          s \in { SeqMod - 2, SeqMod - 1, 0, 1 } }

InitWrap ==
    /\ now_ms = Zero
    /\ ticks = 0
    /\ c2s = <<>>
    /\ s2c = <<>>
    /\ next_seq = 0
    /\ unrel_seq = 0
    /\ unrel_calls = <<>>
    /\ send_buffer = EmptyMap
    /\ retx_tasks = {}
    /\ timers = EmptyBag
    /\ window_available = TRUE
    /\ closed = FALSE
    /\ callers = [c \in 1 .. MaxSends |-> [pc |-> "idle", payload |-> <<>>, seq |-> -1]]
    /\ client_stats = [tx_total |-> 0, tx_reliable |-> 0, tx_unreliable |-> 0,
                       rx_total |-> 0,
                       rx_reliable |-> 0, rx_unreliable |-> 0, retx_count |-> 0,
                       rtt_samples |-> <<>>]
    /\ client_log = EmptyBag
    /\ client_recv = <<>>
    /\ clients \in { Put(EmptyMap, ClientAddr,
                         [expected_seq |-> SeqMod - 2, recv_buffer |-> EmptyMap,
                          delivered_seqs |-> first .. SeqMod - 3,
                          gap_first_seen |-> Put(EmptyMap, SeqMod - 2, Zero)]) :
                        first \in { 0, 1 } }
    /\ server_closed = FALSE
    /\ rx_calls = 0
    /\ server_stats = IF 0 \in clients[ClientAddr].delivered_seqs
                      THEN [rx_total |-> SeqMod - 2, rx_reliable |-> SeqMod - 2,
                            rx_unreliable |-> 0, skip_count |-> 0]
                      ELSE [rx_total |-> SeqMod - 3, rx_reliable |-> SeqMod - 3,
                            rx_unreliable |-> 0, skip_count |-> 1]
    /\ server_log = EmptyBag
    /\ recv_log = [a \in Peers |-> <<>>]
    /\ call = NoCall
    /\ api = ApiInit

NextWrap ==
    \/ \E data \in WrapDatagrams : ServerInject(ClientAddr, data)
    \/ GapTick
    \/ Tick
    \/ ServerClose

SpecWrap == InitWrap /\ [][NextWrap]_vars

NextNoLoss ==
    \/ Calls
    \/ \E c \in 1 .. MaxSends : Resume(c)
    \/ \E seq \in 0 .. MaxSends - 1 : RetxTimer(seq)
    \/ C2SDeliver
    \/ S2CDeliver
    \/ GapTick
    \/ Tick

SpecNoLoss == Init /\ [][NextNoLoss]_vars

\* a step in which the head of the client-to-server queue leaves it; without
\* loss this is the server reading it (C2SDeliver)
C2SHeadLeaves == c2s # <<>> /\ c2s' = Tail(c2s)

\* the event loop runs a callback that is ready, and the network delivers a
\* datagram it holds, sooner or later; nothing is assumed of the clock
Progress ==
    \/ Calls
    \/ \E c \in 1 .. MaxSends : Resume(c)
    \/ \E seq \in 0 .. MaxSends - 1 : RetxTimer(seq)
    \/ S2CDeliver

SpecNoLossFair ==
    Init /\ [][NextNoLoss]_vars /\ WF_vars(Progress) /\ WF_c2s(C2SHeadLeaves)

\* the server's clock advances and the gap checker's 50 ms sleep ends, sooner
\* or later, while the server is open
SpecServerFair ==
    Init /\ [][NextServer]_vars /\ WF_vars(Tick) /\ WF_vars(GapTick)

(***************************************************************************)
(* Observations shared by the properties below.                            *)
(***************************************************************************)
\* the reliable recv_cb calls the server made for a peer, in order
ReliableLog(addr) == SelectSeq(recv_log[addr], LAMBDA d : d.channel = "RELIABLE")

DeliveredSeqs(addr) ==
    { ReliableLog(addr)[i].seq : i \in 1 .. Len(ReliableLog(addr)) }

TimesDelivered(addr, seq) ==
    Cardinality({ i \in 1 .. Len(ReliableLog(addr)) : ReliableLog(addr)[i].seq = seq })

\* how many events of a kind a log holds for addr and seq, whatever their info
Times(log, kind, addr, seq) ==
    LET S == { e \in BagToSet(log) : e.event = kind /\ e.addr = addr /\ e.seq = seq }
    IN  SumOver(S, [e \in S |-> CopiesIn(e, log)])

\* milliseconds that really passed from stamp to now (the clock wraps at 2^32)
ElapsedGE(now, stamp, n) ==
    LET borrow == IF now.lo < stamp.lo THEN 1 ELSE 0
        hi == (now.hi - stamp.hi - borrow) % Limb
        lo == (now.lo - stamp.lo) % Limb
    IN  hi >= 1 \/ lo >= n

(***************************************************************************)
(* C1.  Whatever reliable datagrams arrive from a peer (duplicates,        *)
(* retransmissions, reordered), interleaved with gap-skip scans, the       *)
(* server calls recv_cb at most once for any reliable seq of that peer.    *)
(***************************************************************************)
C1_AtMostOnce ==
    \A a \in Peers : \A seq \in DeliveredSeqs(a) : TimesDelivered(a, seq) = 1

\* a seq arrived twice while it waited in recv_buffer, and a gap skip delivered it
C1_Witness ==
    \E a \in Peers : \E seq \in DeliveredSeqs(a) :
        /\ Count(server_log, Event("rx_data", a, seq, RELIABLE)) >= 2
        /\ server_stats.skip_count >= 1
        /\ Count(server_log, Event("deliver", a, seq, 1)) = 1

(***************************************************************************)
(* C2.  For each peer the reliable deliveries are in expected_seq order:   *)
(* each delivery carries the seq expected after the one before it (seq + 1 *)
(* mod 2^16, 0 at the start) or, only after a logged gap skip from that    *)
(* expected seq and marked skipped, a seq ahead of the expected one by     *)
(* less than recv_window_size; between handlers expected_seq is one past   *)
(* the last delivered seq.                                                 *)
(***************************************************************************)
C2_InOrder ==
    \A a \in Peers :
        LET R == ReliableLog(a)
        IN  /\ \A i \in 1 .. Len(R) :
                   LET exp == IF i = 1 THEN 0 ELSE (R[i - 1].seq + 1) % SeqMod
                       ahead == (R[i].seq - exp) % SeqMod
                   IN  /\ ahead < recv_window_size
                       /\ (ahead > 0) <=> R[i].skipped
                       /\ ahead > 0 =>
                              Count(server_log, Event("skip_gap", a, exp, R[i].seq)) >= 1
                       /\ i > 1 => seq_lt(R[i - 1].seq, R[i].seq)
            /\ (a \in DOMAIN clients /\ R # <<>>) =>
                   clients[a].expected_seq = (R[Len(R)].seq + 1) % SeqMod

\* a delivery, then a gap skip, then the delivery the skip released
C2_Witness ==
    \E a \in Peers :
        /\ Len(ReliableLog(a)) >= 2
        /\ ~ ReliableLog(a)[1].skipped
        /\ ReliableLog(a)[2].skipped
        /\ ReliableLog(a)[2].seq = (ReliableLog(a)[1].seq + 2) % SeqMod

(***************************************************************************)
(* C3.  No loss, duplication or reordering by the network.  Once the N     *)
(* send_reliable calls made so far have all transmitted and nothing is     *)
(* outstanding or in flight, the server application has received exactly N *)
(* reliable deliveries, seqs 0..N-1 in order with the payloads sent and    *)
(* skipped=false.  The ack_rx count is stated twice: as the claim has it   *)
(* (exactly N), and per seq (one ack_rx for every seq the client did not   *)
(* abandon with drop_max_retx, none for an abandoned one).                 *)
(***************************************************************************)
CallsMade == { c \in 1 .. MaxSends : callers[c].pc # "idle" }

Quiescent ==
    /\ \A c \in CallsMade : callers[c].pc = "done"
    /\ c2s = <<>>
    /\ s2c = <<>>
    /\ DOMAIN send_buffer = {}

PayloadOfSeq(seq) == callers[CHOOSE c \in CallsMade : callers[c].seq = seq].payload

AllDelivered(n) ==
    recv_log[ClientAddr] =
        [i \in 1 .. n |-> [channel |-> "RELIABLE", seq |-> i - 1,
                           ts_ms |-> [hi |-> 0, lo |-> 0],
                           payload |-> PayloadOfSeq(i - 1), skipped |-> FALSE]]

AckRx(seq) == Times(client_log, "ack_rx", ClientAddr, seq)
Abandoned(seq) == Times(client_log, "drop_max_retx", ClientAddr, seq)

\* the claim as stated: exactly N ack_rx events
C3_ExactlyNAcks ==
    Quiescent =>
        /\ AllDelivered(Cardinality(CallsMade))
        /\ SumOver(0 .. Cardinality(CallsMade) - 1,
                   [seq \in 0 .. Cardinality(CallsMade) - 1 |-> AckRx(seq)])
               = Cardinality(CallsMade)

\* C3 amended: one ack_rx per seq that was not abandoned
C3_AckOrAbandon ==
    Quiescent =>
        /\ AllDelivered(Cardinality(CallsMade))
        /\ \A seq \in 0 .. Cardinality(CallsMade) - 1 : AckRx(seq) + Abandoned(seq) = 1

\* all calls made and delivered, one packet abandoned while its ACK was delayed
C3_Witness ==
    /\ Quiescent
    /\ Cardinality(CallsMade) = MaxSends
    /\ \E seq \in 0 .. MaxSends - 1 : Abandoned(seq) = 1 /\ seq \in DeliveredSeqs(ClientAddr)

(***************************************************************************)
(* C4.  In every reachable state of the client, under concurrent           *)
(* send_reliable callers, ACK arrivals, timer expiries and close,          *)
(* send_buffer holds at most send_window_size entries.                     *)
(***************************************************************************)
C4_WindowBound == Cardinality(DOMAIN send_buffer) <= send_window_size

\* the window is full and a caller is suspended on it
C4_Witness ==
    /\ Cardinality(DOMAIN send_buffer) = send_window_size
    /\ \E c \in 1 .. MaxSends : callers[c].pc = "waiting"

(***************************************************************************)
(* C5.  With send_window_size < N and no loss, N send_reliable calls all   *)
(* eventually return having transmitted their packet, and the server       *)
(* delivers the N packets in seq order.                                    *)
(***************************************************************************)
AllSendsComplete ==
    \A c \in 1 .. MaxSends :
        /\ callers[c].pc = "done"
        /\ Count(client_log, Event("tx_data", ClientAddr, callers[c].seq, 0)) = 1

AllInSeqOrder ==
    /\ Len(ReliableLog(ClientAddr)) = MaxSends
    /\ \A i \in 1 .. MaxSends : ReliableLog(ClientAddr)[i].seq = i - 1

C5_AllComplete ==
    (send_window_size < MaxSends) => <>(AllSendsComplete /\ AllInSeqOrder)

\* the last caller, suspended on the full window, has been woken and finds room
C5_Witness ==
    /\ send_window_size < MaxSends
    /\ callers[MaxSends].pc = "ready"
    /\ \A c \in 1 .. MaxSends - 1 : callers[c].pc = "done"
    /\ Cardinality(DOMAIN send_buffer) < send_window_size

(***************************************************************************)
(* C6.  For every seq the client sends, the number of retx events logged   *)
(* for it never exceeds max_retx.                                          *)
(***************************************************************************)
C6_RetxBound ==
    \A seq \in 0 .. MaxSends - 1 : Times(client_log, "retx", ClientAddr, seq) <= max_retx

\* a packet used its whole budget and was abandoned
C6_Witness ==
    \E seq \in 0 .. MaxSends - 1 :
        /\ Times(client_log, "retx", ClientAddr, seq) = max_retx
        /\ Abandoned(seq) = 1

(***************************************************************************)
(* C7.  Every reliable data datagram that decodes at the server makes the  *)
(* server send exactly one datagram, to the datagram's source: an ACK      *)
(* (channel RELIABLE, ACK flag, the same seq, empty payload), with one     *)
(* ack_tx logged, whether the seq is new, buffered, delivered or outside   *)
(* the window; a copy of a delivered seq causes no recv_cb.                *)
(***************************************************************************)
ReliableData(data) ==
    /\ decode_packet(data) # None
    /\ ~ is_ack(decode_packet(data).header)
    /\ decode_packet(data).header.channel = RELIABLE

IsAckFor(data, seq) ==
    /\ decode_packet(data) # None
    /\ decode_packet(data).header.channel = RELIABLE
    /\ is_ack(decode_packet(data).header)
    /\ decode_packet(data).header.seq = seq
    /\ decode_packet(data).payload = <<>>

C7_OneAckPerDatagram ==
    [][ \A addr \in Peers : \A data \in Datagrams(addr) :
          (ServerInject(addr, data) /\ ReliableData(data)) =>
              LET seq == decode_packet(data).header.seq
              IN  /\ Len(s2c') = 1
                  /\ s2c'[1].to = addr
                  /\ IsAckFor(s2c'[1].data, seq)
                  /\ Times(server_log', "ack_tx", addr, seq)
                         = Times(server_log, "ack_tx", addr, seq) + 1
                  /\ seq \in DeliveredSeqs(addr) => recv_log' = recv_log ]_vars

\* a delivered seq arrived again: two ack_tx, one recv_cb, and the ACK just sent
C7_Witness ==
    \E a \in Peers : \E seq \in DeliveredSeqs(a) :
        /\ Times(server_log, "ack_tx", a, seq) = 2
        /\ TimesDelivered(a, seq) = 1
        /\ Len(s2c) = 1
        /\ s2c[1].to = a
        /\ IsAckFor(s2c[1].data, seq)

(***************************************************************************)
(* C8.  Fair-lossy network, no packet abandoned by the client: every       *)
(* packet passed to send_reliable is eventually delivered to the server    *)
(* application.  In a finite run: every packet transmitted is delivered,   *)
(* or can still be (the server has not moved past it, and it is in         *)
(* recv_buffer, or in flight, or the client still holds it to              *)
(* retransmit).                                                            *)
(***************************************************************************)
ServerState == IF ClientAddr \in DOMAIN clients THEN clients[ClientAddr] ELSE ClientState

InFlight(seq) ==
    \E i \in 1 .. Len(c2s) : decode_packet(c2s[i]).header.seq = seq

StillDeliverable(seq) ==
    /\ ~ seq_lt(seq, ServerState.expected_seq)
    /\ \/ seq \in DOMAIN ServerState.recv_buffer
       \/ seq \in DOMAIN send_buffer
       \/ InFlight(seq)

C8_NoPacketLost ==
    (~ closed /\ \A seq \in 0 .. MaxSends - 1 : Abandoned(seq) = 0) =>
        \A c \in 1 .. MaxSends :
            callers[c].pc = "done" =>
                \/ callers[c].seq \in DeliveredSeqs(ClientAddr)
                \/ StillDeliverable(callers[c].seq)

(***************************************************************************)
(* C9.  While the seq a peer's expected_seq names has not arrived and a    *)
(* later seq of the window waits in recv_buffer, a gap-skip scan that runs *)
(* once gap_skip_timeout_ms has passed since the gap was stamped emits     *)
(* skip_gap and advances expected_seq.                                     *)
(***************************************************************************)
GapDue(a) ==
    /\ clients[a].expected_seq \in DOMAIN clients[a].gap_first_seen
    /\ GapCandidates(clients[a]) # {}
    /\ ElapsedGE(now_ms, clients[a].gap_first_seen[clients[a].expected_seq],
                 gap_skip_timeout_ms)

C9_ScanSkipsWhenDue ==
    \A a \in DOMAIN clients : GapDue(a) => gap_check(a, clients[a]).skips = 1

(***************************************************************************)
(* C10.  Once a gap skip has advanced a peer's expected_seq from a to b,   *)
(* the seqs a..b-1 stay lost: whatever arrives later, none of them is in   *)
(* recv_buffer or delivered, and each arrival of one is still ACKed.       *)
(***************************************************************************)
SkippedSeqs(a) ==
    UNION { { (e.seq + k) % SeqMod : k \in 0 .. ((e.info - e.seq) % SeqMod) - 1 } :
            e \in { x \in BagToSet(server_log) : x.event = "skip_gap" /\ x.addr = a } }

C10_SkippedStayLost ==
    \A a \in DOMAIN clients : \A seq \in SkippedSeqs(a) :
        /\ seq \notin DOMAIN clients[a].recv_buffer
        /\ seq \notin DeliveredSeqs(a)
        /\ Times(server_log, "ack_tx", a, seq) = Count(server_log, Event("rx_data", a, seq, RELIABLE))

\* a skipped seq arrived after the skip and was ACKed
C10_Witness ==
    \E a \in DOMAIN clients : \E seq \in SkippedSeqs(a) :
        /\ Count(server_log, Event("rx_data", a, seq, RELIABLE)) >= 1
        /\ Times(server_log, "ack_tx", a, seq) >= 1
        /\ Len(s2c) = 1
        /\ IsAckFor(s2c[1].data, seq)

(***************************************************************************)
(* C11.  A send_reliable or send_unreliable call with len(payload) + 8 >   *)
(* mtu fails with the payload-too-large error and changes nothing: no seq  *)
(* is consumed on either channel, no send_buffer entry or timer is made,   *)
(* nothing is transmitted, no counter or log changes; a payload with       *)
(* len(payload) + 8 = mtu (or less) is accepted.                           *)
(***************************************************************************)
EndpointUntouched ==
    UNCHANGED << next_seq, unrel_seq, send_buffer, retx_tasks, timers, c2s,
                 client_stats, client_log, window_available, closed >>

C11_TooLargeRejected ==
    [][ /\ \A c \in 1 .. MaxSends :
              (callers[c].pc = "idle" /\ callers'[c].pc # "idle") =>
                  IF Len(callers'[c].payload) + HEADER_SIZE > mtu
                  THEN callers'[c].pc = "raised" /\ EndpointUntouched
                  ELSE callers'[c].pc \in {"done", "waiting"}
        /\ Len(unrel_calls') = Len(unrel_calls) + 1 =>
              LET made == unrel_calls'[Len(unrel_calls')]
              IN  IF Len(made.payload) + HEADER_SIZE > mtu
                  THEN made.outcome = "raised" /\ EndpointUntouched
                  ELSE made.outcome = "sent" ]_vars

\* on each channel one call was refused and one with a payload that just fits
\* was transmitted
C11_Witness ==
    /\ \E c \in 1 .. MaxSends : callers[c].pc = "raised"
    /\ \E c \in 1 .. MaxSends :
          callers[c].pc = "done" /\ Len(callers[c].payload) + HEADER_SIZE = mtu
    /\ \E i \in 1 .. Len(unrel_calls) : unrel_calls[i].outcome = "raised"
    /\ \E i \in 1 .. Len(unrel_calls) :
          /\ unrel_calls[i].outcome = "sent"
          /\ Len(unrel_calls[i].payload) + HEADER_SIZE = mtu

(***************************************************************************)
(* C12.  When close is called while send_reliable callers are suspended on *)
(* a full window, every one of them is woken, and a woken caller that      *)
(* runs on after close returns without error, without a seq, without a     *)
(* send_buffer entry and without transmitting.                             *)
(***************************************************************************)
C12_CloseWakesWaiters ==
    [][ /\ (~ closed /\ closed') =>
              \A c \in 1 .. MaxSends :
                  callers[c].pc = "waiting" => callers'[c].pc = "ready"
        /\ \A c \in 1 .. MaxSends :
              (closed /\ callers[c].pc = "ready" /\ callers'[c] # callers[c]) =>
                  /\ callers'[c].pc = "returned"
                  /\ callers'[c].seq = -1
                  /\ UNCHANGED << next_seq, send_buffer, retx_tasks, timers, c2s,
                                  client_stats, client_log >> ]_vars

\* a caller that was suspended has returned after close, with room in the window
C12_Witness ==
    /\ closed
    /\ \E c \in 1 .. MaxSends : callers[c].pc = "returned" /\ callers[c].seq = -1
    /\ Cardinality(DOMAIN send_buffer) < send_window_size

(***************************************************************************)
(* C13.  After close has returned no timer fires on the endpoint: on the   *)
(* client no retx and no drop_max_retx event is logged and no reliable     *)
(* datagram is transmitted or retransmitted, also when the application     *)
(* calls send_reliable again after close; on the server no gap skip is     *)
(* logged.                                                                 *)
(***************************************************************************)
ReliableTx(log) ==
    LET S == { e \in BagToSet(log) : e.event = "tx_data" /\ e.info \in {0, 1} }
    IN  SumOver(S, [e \in S |-> CopiesIn(e, log)])

TimerEvents(log) ==
    LET S == { e \in BagToSet(log) : e.event \in {"retx", "drop_max_retx"} }
    IN  SumOver(S, [e \in S |-> CopiesIn(e, log)])

C13_QuietAfterClose ==
    [][ /\ closed => /\ TimerEvents(client_log') = TimerEvents(client_log)
                     /\ ReliableTx(client_log') = ReliableTx(client_log)
        /\ server_closed => server_stats'.skip_count = server_stats.skip_count ]_vars

(***************************************************************************)
(* C14.  Every unreliable datagram that arrives is handed to recv_cb in    *)
(* the step of its arrival, after everything delivered before it, with     *)
(* its own seq, ts_ms and payload and skipped = FALSE, once per arrival;   *)
(* the server sends nothing back, logs no ack_tx, and the reorder state    *)
(* of every peer (recv_buffer, delivered_seqs, expected_seq) is as before. *)
(***************************************************************************)
UnreliableData(data) ==
    /\ decode_packet(data) # None
    /\ ~ is_ack(decode_packet(data).header)
    /\ decode_packet(data).header.channel = UNRELIABLE

AckTxCount(log) ==
    LET S == { e \in BagToSet(log) : e.event = "ack_tx" }
    IN  SumOver(S, [e \in S |-> CopiesIn(e, log)])

C14_UnreliableImmediate ==
    [][ \A addr \in Peers : \A data \in Datagrams(addr) :
          (ServerInject(addr, data) /\ UnreliableData(data)) =>
              LET packet == decode_packet(data)
              IN  /\ recv_log' =
                       [recv_log EXCEPT ![addr] =
                           Append(@, [channel |-> "UNRELIABLE",
                                      seq |-> packet.header.seq,
                                      ts_ms |-> packet.header.ts_ms,
                                      payload |-> packet.payload,
                                      skipped |-> FALSE])]
                  /\ s2c' = <<>>
                  /\ AckTxCount(server_log') = AckTxCount(server_log)
                  /\ \A a \in DOMAIN clients : clients'[a] = clients[a]
                  /\ clients'[addr].recv_buffer = EmptyMap
                         \/ addr \in DOMAIN clients ]_vars

\* seq 1 arrived before seq 0 and seq 0 arrived twice: three deliveries, in
\* arrival order
C14_Witness ==
    /\ Len(recv_log[ClientAddr]) = 3
    /\ \A i \in 1 .. 3 : /\ recv_log[ClientAddr][i].channel = "UNRELIABLE"
                         /\ ~ recv_log[ClientAddr][i].skipped
    /\ recv_log[ClientAddr][1].seq = 1
    /\ recv_log[ClientAddr][2].seq = 0
    /\ recv_log[ClientAddr][3].seq = 0
    /\ s2c = <<>>
    /\ clients[ClientAddr].recv_buffer = EmptyMap

(***************************************************************************)
(* C15.  Sequence numbers are allocated consecutively modulo 2^16 and      *)
(* independently per channel.  tx_reliable counts the send_reliable calls  *)
(* that passed window admission and tx_unreliable the send_unreliable      *)
(* calls that sent (an oversized call allocates nothing): the k-th of the  *)
(* channel gets seq (k - 1) mod 2^16 and puts it on the wire, the other    *)
(* channel's counter is left alone, and no two send_reliable callers hold  *)
(* the same seq.                                                           *)
(***************************************************************************)
C15_ConsecutiveSeqs ==
    [][ /\ \A c \in 1 .. MaxSends :
             (callers[c].pc # "done" /\ callers'[c].pc = "done") =>
                 /\ client_stats'.tx_reliable = client_stats.tx_reliable + 1
                 /\ callers'[c].seq = (client_stats'.tx_reliable - 1) % SeqMod
                 /\ decode_packet(c2s'[Len(c2s')]).header.seq = callers'[c].seq
                 /\ decode_packet(c2s'[Len(c2s')]).header.channel = RELIABLE
                 /\ unrel_seq' = unrel_seq
        /\ (/\ Len(unrel_calls') = Len(unrel_calls) + 1
            /\ unrel_calls'[Len(unrel_calls')].outcome = "sent") =>
                 /\ client_stats'.tx_unreliable = client_stats.tx_unreliable + 1
                 /\ unrel_calls'[Len(unrel_calls')].seq
                        = (client_stats'.tx_unreliable - 1) % SeqMod
                 /\ decode_packet(c2s'[Len(c2s')]).header.seq
                        = unrel_calls'[Len(unrel_calls')].seq
                 /\ decode_packet(c2s'[Len(c2s')]).header.channel = UNRELIABLE
                 /\ next_seq' = next_seq
        /\ next_seq' = client_stats'.tx_reliable % SeqMod
        /\ unrel_seq' = client_stats'.tx_unreliable % SeqMod
        /\ \A c, d \in 1 .. MaxSends :
             (c # d /\ callers'[c].pc = "done" /\ callers'[d].pc = "done") =>
                 callers'[c].seq # callers'[d].seq ]_vars

\* both counters wrapped: the reliable callers hold 65535, 0 and 1 (the third
\* was admitted after an ACK opened the window) and the unreliable calls got
\* 65535 and 0, one of them between two reliable sends
C15_Witness ==
    /\ callers[1].pc = "done" /\ callers[1].seq = SeqMod - 1
    /\ callers[2].pc = "done" /\ callers[2].seq = 0
    /\ callers[3].pc = "done" /\ callers[3].seq = 1
    /\ Len(unrel_calls) = 2
    /\ unrel_calls[1].outcome = "sent" /\ unrel_calls[1].seq = SeqMod - 1
    /\ unrel_calls[2].outcome = "sent" /\ unrel_calls[2].seq = 0
    /\ next_seq = 2
    /\ unrel_seq = 1

(***************************************************************************)
(* C16.  A datagram of at least HEADER_SIZE bytes whose channel byte is    *)
(* neither UNRELIABLE nor RELIABLE is dropped silently: it decodes to      *)
(* None, and its arrival calls no recv_cb, sends no ACK and leaves the     *)
(* per-peer state, the counters and the log as they were.                  *)
(***************************************************************************)
BadChannel(data) ==
    /\ Len(data) >= HEADER_SIZE
    /\ data[1] \notin { UNRELIABLE, RELIABLE }

C16_BadChannelDropped ==
    [][ \A addr \in Peers : \A data \in Datagrams(addr) :
          (ServerInject(addr, data) /\ BadChannel(data)) =>
              /\ decode_packet(data) = None
              /\ recv_log' = recv_log
              /\ s2c' = <<>>
              /\ clients' = clients
              /\ server_stats' = server_stats
              /\ server_log' = server_log ]_vars

(***************************************************************************)
(* C17.  A datagram shorter than HEADER_SIZE bytes decodes to None and is  *)
(* dropped with the server's state unchanged: no counter moves, no         *)
(* ClientState is created (not even for a source address never seen), no   *)
(* ACK is sent, nothing is logged and recv_cb is not called.               *)
(***************************************************************************)
C17_ShortDropped ==
    [][ \A addr \in Peers : \A data \in Datagrams(addr) :
          (ServerInject(addr, data) /\ Len(data) < HEADER_SIZE) =>
              /\ decode_packet(data) = None
              /\ server_stats' = server_stats
              /\ clients' = clients
              /\ s2c' = <<>>
              /\ server_log' = server_log
              /\ recv_log' = recv_log ]_vars

\* three datagrams arrived and two of them left no trace: one packet counted,
\* one peer known, one delivery
C17_Witness ==
    /\ rx_calls = 3
    /\ server_stats.rx_total = 1
    /\ DOMAIN clients = { ClientAddr }
    /\ Len(recv_log[ClientAddr]) = 1
    /\ recv_log[ClientAddr][1].channel = "RELIABLE"

(***************************************************************************)
(* C18.  In every reachable client state a seq is a key of send_buffer if  *)
(* and only if it has been transmitted (a tx_data event), no ACK for it    *)
(* has been processed (no ack_rx event) and it has not been dropped for    *)
(* exceeding max_retx (no drop_max_retx event); and every entry's          *)
(* retx_count is within 0 .. max_retx.  No seq is allocated twice here, so *)
(* an event of a seq is an event of its one transmission.                  *)
(***************************************************************************)
C18_SendBufferExact ==
    /\ DOMAIN send_buffer \subseteq 0 .. MaxSends - 1
    /\ \A seq \in 0 .. MaxSends - 1 :
         seq \in DOMAIN send_buffer <=>
             /\ Times(client_log, "tx_data", ClientAddr, seq) >= 1
             /\ Times(client_log, "ack_rx", ClientAddr, seq) = 0
             /\ Times(client_log, "drop_max_retx", ClientAddr, seq) = 0
    /\ \A seq \in DOMAIN send_buffer :
         send_buffer[seq].retx_count \in 0 .. max_retx

\* seq 0 left by its ACK, seq 1 left by the max_retx drop, and seq 2 is still
\* held with its retransmission budget spent
C18_Witness ==
    /\ DOMAIN send_buffer = {2}
    /\ send_buffer[2].retx_count = max_retx
    /\ Times(client_log, "ack_rx", ClientAddr, 0) = 1
    /\ Times(client_log, "drop_max_retx", ClientAddr, 1) = 1
    /\ Times(client_log, "tx_data", ClientAddr, 2) = 1 + max_retx

(***************************************************************************)
(* C19.  At every moment at most one retransmission timer is pending per   *)
(* reliable seq, a pending timer belongs to a seq of send_buffer (the ACK  *)
(* and the max_retx drop remove it with the entry), and while the endpoint *)
(* is open every seq of send_buffer has exactly one pending timer.         *)
(***************************************************************************)
PendingTimers(seq) ==
    LET S == { t \in BagToSet(timers) : t.seq = seq }
    IN  SumOver(S, [t \in S |-> CopiesIn(t, timers)])

C19_OneTimerPerSeq ==
    /\ \A t \in BagToSet(timers) :
         /\ PendingTimers(t.seq) = 1
         /\ t.seq \in DOMAIN send_buffer
    /\ ~ closed => \A seq \in DOMAIN send_buffer : PendingTimers(seq) = 1

\* the endpoint is open, seq 0 was ACKed and holds no timer, seq 1 was
\* retransmitted and holds the timer its retransmission armed, seq 2 holds the
\* timer send_reliable armed
C19_Witness ==
    /\ ~ closed
    /\ DOMAIN send_buffer = {1, 2}
    /\ Times(client_log, "ack_rx", ClientAddr, 0) = 1
    /\ send_buffer[1].retx_count = 1
    /\ send_buffer[2].retx_count = 0
    /\ PendingTimers(0) = 0
    /\ PendingTimers(1) = 1
    /\ PendingTimers(2) = 1

(***************************************************************************)
(* C20.  Whenever _deliver_in_order returns, from a reliable arrival or    *)
(* from a gap skip, the peer's recv_buffer does not hold expected_seq and  *)
(* gap_first_seen holds expected_seq.  Only _deliver_in_order and the      *)
(* statements just before its two calls write a ClientState, so the steps  *)
(* that change or create a non-fresh ClientState are the steps it ran in.  *)
(***************************************************************************)
DeliverRan(addr) ==
    /\ addr \in DOMAIN clients'
    /\ clients'[addr] # (IF addr \in DOMAIN clients THEN clients[addr] ELSE ClientState)

C20_DrainedAndStamped ==
    [][ \A addr \in Peers :
          DeliverRan(addr) =>
              /\ clients'[addr].expected_seq \notin DOMAIN clients'[addr].recv_buffer
              /\ clients'[addr].expected_seq \in DOMAIN clients'[addr].gap_first_seen ]_vars

\* seq 0 never came, seq 1 was buffered behind the gap and delivered by the
\* skip: the buffer is drained and the new head, seq 2, is stamped
C20_Witness ==
    /\ ClientAddr \in DOMAIN clients
    /\ server_stats.skip_count = 1
    /\ clients[ClientAddr].expected_seq = 2
    /\ clients[ClientAddr].delivered_seqs = {1}
    /\ clients[ClientAddr].recv_buffer = EmptyMap
    /\ DOMAIN clients[ClientAddr].gap_first_seen = {2}

(***************************************************************************)
(* C21.  Reliable delivery survives the wrap of the sequence space: a      *)
(* reliable packet whose seq falls inside the receive window is new (the   *)
(* seqs delivered in this cycle are all behind expected_seq), so its       *)
(* arrival buffers it or delivers it, also when the same seq was delivered *)
(* one cycle earlier.                                                      *)
(***************************************************************************)
C21_DeliversAfterWrap ==
    [][ \A data \in WrapDatagrams :
          (/\ ServerInject(ClientAddr, data)
           /\ seq_in_window(decode_packet(data).header.seq,
                            clients[ClientAddr].expected_seq, recv_window_size)) =>
              LET seq == decode_packet(data).header.seq
              IN  \/ seq \in DOMAIN clients'[ClientAddr].recv_buffer
                  \/ /\ Len(recv_log'[ClientAddr]) > Len(recv_log[ClientAddr])
                     /\ \E i \in Len(recv_log[ClientAddr]) + 1 .. Len(recv_log'[ClientAddr]) :
                           recv_log'[ClientAddr][i].seq = seq ]_vars

(***************************************************************************)
(* C22.  decode_packet(encode_packet(c, f, s, t, p)) is a packet with      *)
(* exactly channel c, flags f, seq s, ts_ms t and payload p, and the       *)
(* encoded length is HEADER_SIZE + len(p).                                 *)
(***************************************************************************)
C22_RoundTrip ==
    [][ (/\ call.fn = "encode_packet"
         /\ call.ret # <<>>
         /\ call'.fn = "decode_packet"
         /\ call'.args = << call.ret[1] >>) =>
            /\ Len(call.ret[1]) = HEADER_SIZE + Len(call.args[5])
            /\ call'.ret = << [header |-> [channel |-> call.args[1],
                                           flags |-> call.args[2],
                                           seq |-> call.args[3],
                                           ts_ms |-> call.args[4]],
                               payload |-> call.args[5]] >> ]_vars

\* the largest header fields and a two-byte payload came back from the bytes
C22_Witness ==
    /\ call.fn = "decode_packet"
    /\ Len(call.args[1]) = HEADER_SIZE + 2
    /\ call.ret = << [header |-> [channel |-> RELIABLE, flags |-> 7,
                                  seq |-> SeqMod - 1,
                                  ts_ms |-> [hi |-> Limb - 1, lo |-> Limb - 1]],
                      payload |-> <<255, 0>>] >>

(***************************************************************************)
(* C23.  seq_lt over the 16-bit sequence space is irreflexive, handles the *)
(* wrap (seq_lt(65535, 0) is true and seq_lt(0, 65535) is false), and for  *)
(* a, b with (a - b) mod 2^16 other than 2^15 exactly one of seq_lt(a, b), *)
(* seq_lt(b, a) and a = b holds.                                           *)
(***************************************************************************)
C23_SeqLtOrder ==
    (call.fn = "seq_lt" /\ call.ret # <<>>) =>
        LET a == call.args[1]
            b == call.args[2]
            lt == call.ret[1]
            gt == seq_lt(b, a)
        IN  /\ a = b => ~ lt
            /\ (a = SeqMod - 1 /\ b = 0) => lt
            /\ (a = 0 /\ b = SeqMod - 1) => ~ lt
            /\ (a - b) % SeqMod # SeqMod \div 2 =>
                   \/ lt /\ ~ gt /\ a # b
                   \/ ~ lt /\ gt /\ a # b
                   \/ ~ lt /\ ~ gt /\ a = b

\* seq_lt(65535, 0) returned TRUE
C23_Witness ==
    /\ call.fn = "seq_lt"
    /\ call.args = << SeqMod - 1, 0 >>
    /\ call.ret = << TRUE >>

(***************************************************************************)
(* C24.  A reliable data datagram with seq s is inserted into the peer's   *)
(* recv_buffer (and stays there or is delivered in the same call) if and   *)
(* only if (s - expected_seq) mod 2^16 < recv_window_size and s is not in  *)
(* delivered_seqs; otherwise the peer's recv_buffer, delivered_seqs,       *)
(* expected_seq and gap_first_seen are unchanged and nothing is delivered. *)
(* seq_in_window agrees with that arithmetic test, also for a window that  *)
(* wraps past 65535.                                                       *)
(***************************************************************************)
DeliveredNow(addr, seq, payload) ==
    \E i \in Len(recv_log[addr]) + 1 .. Len(recv_log'[addr]) :
        /\ recv_log'[addr][i].seq = seq
        /\ recv_log'[addr][i].payload = payload
        /\ recv_log'[addr][i].channel = "RELIABLE"

C24_InsertIffInWindow ==
    [][ \A data \in WrapDatagrams :
          ServerInject(ClientAddr, data) =>
              LET s == decode_packet(data).header.seq
                  payload == decode_packet(data).payload
                  cs == clients[ClientAddr]
                  inside == (s - cs.expected_seq) % SeqMod < recv_window_size
              IN  /\ seq_in_window(s, cs.expected_seq, recv_window_size) <=> inside
                  /\ IF inside /\ s \notin cs.delivered_seqs
                     THEN \/ /\ s \in DOMAIN clients'[ClientAddr].recv_buffer
                             /\ clients'[ClientAddr].recv_buffer[s] = payload
                          \/ DeliveredNow(ClientAddr, s, payload)
                     ELSE /\ clients'[ClientAddr] = cs
                          /\ recv_log' = recv_log ]_vars

\* the window wraps past 65535: seq 0 is buffered behind the missing 65535,
\* after an arrival of seq 1, outside the window, changed nothing
C24_Witness ==
    /\ clients[ClientAddr].expected_seq = SeqMod - 1
    /\ DOMAIN clients[ClientAddr].recv_buffer = {0}
    /\ Count(server_log, Event("rx_data", ClientAddr, 1, RELIABLE)) = 1
    /\ 1 \in clients[ClientAddr].delivered_seqs
    /\ Len(recv_log[ClientAddr]) = 1

(***************************************************************************)
(* C25.  Once the client has processed the ACK of a seq (an ack_rx event), *)
(* no retx and no tx_data event of that seq follows and no datagram of it  *)
(* is sent, whichever of the ACK and the seq's timer comes first; and a    *)
(* timer that expires for a seq that is not in send_buffer changes no      *)
(* endpoint state and sends nothing.                                       *)
(***************************************************************************)
SentOf(queue, seq) ==
    Len(SelectSeq(queue, LAMBDA d : /\ decode_packet(d).header.channel = RELIABLE
                                    /\ decode_packet(d).header.seq = seq))

C25_NoRetxAfterAck ==
    [][ /\ \A seq \in 0 .. MaxSends - 1 :
             Times(client_log, "ack_rx", ClientAddr, seq) >= 1 =>
                 /\ Times(client_log', "retx", ClientAddr, seq)
                        = Times(client_log, "retx", ClientAddr, seq)
                 /\ Times(client_log', "tx_data", ClientAddr, seq)
                        = Times(client_log, "tx_data", ClientAddr, seq)
                 /\ SentOf(c2s', seq) <= SentOf(c2s, seq)
        /\ \A seq \in 0 .. MaxSends - 1 :
             (RetxTimer(seq) /\ seq \notin DOMAIN send_buffer) =>
                 UNCHANGED << send_buffer, c2s, client_stats, client_log,
                              retx_tasks, window_available, callers, next_seq >> ]_vars

\* both orders: seq 0 was ACKed before its timer was due, and the time of the
\* timer has passed without a retransmission; seq 1 was retransmitted by its
\* timer and ACKed after that
C25_Witness ==
    /\ Times(client_log, "ack_rx", ClientAddr, 0) = 1
    /\ Times(client_log, "tx_data", ClientAddr, 0) = 1
    /\ Times(client_log, "retx", ClientAddr, 0) = 0
    /\ Times(client_log, "ack_rx", ClientAddr, 1) = 1
    /\ Times(client_log, "retx", ClientAddr, 1) = 1
    /\ Times(client_log, "tx_data", ClientAddr, 1) = 2
    /\ ticks = MaxTicks
    /\ timers = EmptyBag

(***************************************************************************)
(* C26.  When a timer expires for a seq whose entry has retx_count >=      *)
(* max_retx, the client logs one drop_max_retx event for it and nothing    *)
(* else, removes the entry and the timer, sends nothing, wakes every       *)
(* caller suspended on the window, calls no recv_cb and raises no error to *)
(* a send caller; no seq is ever dropped twice.                            *)
(***************************************************************************)
C26_DropAtMaxRetx ==
    [][ \A seq \in 0 .. MaxSends - 1 :
          (/\ RetxTimer(seq)
           /\ seq \in DOMAIN send_buffer
           /\ send_buffer[seq].retx_count >= max_retx) =>
              /\ Times(client_log', "drop_max_retx", ClientAddr, seq) = 1
              /\ Times(client_log, "drop_max_retx", ClientAddr, seq) = 0
              /\ BagCardinality(client_log') = BagCardinality(client_log) + 1
              /\ send_buffer' = Remove(send_buffer, seq)
              /\ seq \notin retx_tasks'
              /\ PendingTimers(seq)' = 0
              /\ c2s' = c2s
              /\ client_stats' = client_stats
              /\ client_recv' = client_recv
              /\ window_available'
              /\ \A c \in 1 .. MaxSends :
                    IF callers[c].pc = "waiting"
                    THEN callers'[c] = [callers[c] EXCEPT !.pc = "ready"]
                    ELSE callers'[c] = callers[c] ]_vars

\* no ACK ever came and the endpoint is open: seq 0 was dropped after its
\* retransmission, and the caller that waited for the window was woken by it
C26_Witness ==
    /\ ~ closed
    /\ client_stats.rx_total = 0
    /\ Times(client_log, "retx", ClientAddr, 0) = max_retx
    /\ Times(client_log, "drop_max_retx", ClientAddr, 0) = 1
    /\ 0 \notin DOMAIN send_buffer
    /\ callers[3].pc = "ready"
    /\ client_recv = <<>>

(***************************************************************************)
(* C27.  max_retx is the number of attempts: the number of times one       *)
(* reliable packet is put on the wire, the first transmission and the      *)
(* retransmissions together, never exceeds max_retx.                       *)
(***************************************************************************)
C27_AttemptsBound ==
    \A seq \in 0 .. MaxSends - 1 :
        Times(client_log, "tx_data", ClientAddr, seq) <= max_retx

(***************************************************************************)
(* C28.  An ACK for a seq that is not in send_buffer (never sent, already  *)
(* ACKed or already dropped) leaves send_buffer, the timers, the RTT       *)
(* samples, the window signal and the suspended callers unchanged, logs no *)
(* event and sends nothing; so a seq has at most one ack_rx event and      *)
(* there is one RTT sample per ack_rx event, however often an ACK is       *)
(* repeated.                                                               *)
(***************************************************************************)
AckRxCount(log) ==
    LET S == { e \in BagToSet(log) : e.event = "ack_rx" }
    IN  SumOver(S, [e \in S |-> CopiesIn(e, log)])

C28_StrayAckIgnored ==
    [][ /\ \A seq \in 0 .. MaxSends - 1 :
             (AckInject(seq) /\ seq \notin DOMAIN send_buffer) =>
                 /\ UNCHANGED << send_buffer, timers, retx_tasks, window_available,
                                 callers, client_log, c2s, client_recv >>
                 /\ client_stats'.rtt_samples = client_stats.rtt_samples
        /\ \A seq \in 0 .. MaxSends - 1 :
             Times(client_log', "ack_rx", ClientAddr, seq) <= 1
        /\ Len(client_stats'.rtt_samples) = AckRxCount(client_log') ]_vars

\* only seq 0 was ever sent and three ACKs arrived: one was processed, the
\* other two (repeated, or for a seq never sent) left no trace
C28_Witness ==
    /\ next_seq = 1
    /\ client_stats.rx_total = 3
    /\ AckRxCount(client_log) = 1
    /\ Times(client_log, "ack_rx", ClientAddr, 0) = 1
    /\ Len(client_stats.rtt_samples) = 1
    /\ send_buffer = EmptyMap

(***************************************************************************)
(* C29.  A gap-skip tick changes a peer's state only when the head-of-line *)
(* gap has aged at least gap_skip_timeout_ms and some seq expected_seq + i *)
(* with 1 <= i < recv_window_size is in recv_buffer; it then moves         *)
(* expected_seq to the candidate with the smallest i (logged as the to_seq *)
(* of one skip_gap event, and delivered first).  For every other peer      *)
(* expected_seq, recv_buffer, delivered_seqs and gap_first_seen are        *)
(* unchanged and nothing is delivered, and skip_count counts the peers     *)
(* skipped.                                                                *)
(***************************************************************************)
Candidate(cs, i) == (cs.expected_seq + i) % SeqMod

SmallestCandidate(cs) ==
    Candidate(cs, CHOOSE i \in 1 .. recv_window_size - 1 :
                      /\ Candidate(cs, i) \in DOMAIN cs.recv_buffer
                      /\ \A j \in 1 .. i - 1 : Candidate(cs, j) \notin DOMAIN cs.recv_buffer)

PeerChanged(a) == clients'[a] # clients[a] \/ recv_log'[a] # recv_log[a]

NewDeliveries(a) == SubSeq(recv_log'[a], Len(recv_log[a]) + 1, Len(recv_log'[a]))

SkippedDeliveries(a) == Len(SelectSeq(recv_log[a], LAMBDA d : d.skipped))

SkipGapEvents(a) ==
    LET S == { e \in BagToSet(server_log) : e.event = "skip_gap" /\ e.addr = a }
    IN  SumOver(S, [e \in S |-> CopiesIn(e, server_log)])

C31_DeliveredBounded ==
    \A a \in DOMAIN clients :
        /\ Cardinality(clients[a].delivered_seqs) <= recv_window_size
        /\ \A s \in clients[a].delivered_seqs :
              (clients[a].expected_seq - s) % SeqMod \in 1 .. recv_window_size

(***************************************************************************)
(* C32.  Every RTT sample recorded on ACK receipt is the elapsed time      *)
(* taken unsigned modulo 2^32: no value in rtt_samples is negative, also   *)
(* when the clock wrapped between the first transmission and the ACK.      *)
(***************************************************************************)
C32_RttUnsigned ==
    \A i \in 1 .. Len(client_stats.rtt_samples) :
        IntGE(client_stats.rtt_samples[i], 0)

(***************************************************************************)
(* C33.  The server keeps one independent reliable receive state per       *)
(* source address.  A peer's state is created by the first datagram from   *)
(* its address, counting from expected_seq = 0, and is never removed; a    *)
(* step changes the state of a peer only if it handled reliable data from  *)
(* that peer or skipped a gap of that peer, so what arrives from, or is    *)
(* skipped for, one peer leaves every other peer's state as it was.        *)
(***************************************************************************)
RxDataEvents(a) ==
    LET S == { e \in BagToSet(server_log) : e.event = "rx_data" /\ e.addr = a }
    IN  SumOver(S, [e \in S |-> CopiesIn(e, server_log)])

C33_PeersIndependent ==
    [][ /\ DOMAIN clients \subseteq DOMAIN clients'
        /\ \A b \in DOMAIN clients :
              clients'[b] # clients[b] =>
                  \/ RxDataEvents(b)' = RxDataEvents(b) + 1
                  \/ /\ GapTick
                     /\ SkipGapEvents(b)' = SkipGapEvents(b) + 1
        /\ \A b \in DOMAIN clients' \ DOMAIN clients :
              /\ rx_calls' = rx_calls + 1
              /\ DOMAIN clients' = DOMAIN clients \cup {b}
              /\ clients'[b].delivered_seqs \subseteq {0}
              /\ clients'[b].expected_seq = Cardinality(clients'[b].delivered_seqs)
              /\ \A s \in DOMAIN clients'[b].recv_buffer :
                    s \in 1 .. recv_window_size - 1 ]_vars

\* peer A's gap was skipped while peer B's state, with seq 1 buffered
\* behind its own gap, stayed what B's one datagram made it
C33_Witness ==
    /\ DOMAIN clients = Peers
    /\ SkipGapEvents("A") = 1
    /\ clients["A"].expected_seq = 2
    /\ RxDataEvents("A") = 1
    /\ RxDataEvents("B") = 1
    /\ clients["B"].expected_seq = 0
    /\ DOMAIN clients["B"].recv_buffer = {1}
    /\ clients["B"].delivered_seqs = {}

(***************************************************************************)
(* C34.  The first transmission of a reliable packet has flags NONE and    *)
(* every retransmission has the RETX flag set: a step that sends reliable  *)
(* data for a seq not in send_buffer sends the next seq with no flag and   *)
(* buffers its payload with retx_count 0; a step that sends reliable data  *)
(* for a buffered seq sends that entry's seq and payload with RETX set,    *)
(* adds exactly one to its retx_count and leaves exactly one timer armed   *)
(* for it; retx_count changes in no other step.                            *)
(***************************************************************************)
HasRetxFlag(flags) == (flags \div FLAG_RETX) % 2 = 1

\* the packet this step hands to the socket, or None
SentNow ==
    IF Len(c2s') = Len(c2s) + 1 THEN decode_packet(c2s'[Len(c2s')]) ELSE None

\* the timers pending for seq after this step
ArmedAfter(seq) ==
    LET S == { t \in BagToSet(timers') : t.seq = seq }
    IN  SumOver(S, [t \in S |-> CopiesIn(t, timers')])

SentReliable(p) ==
    /\ p # None
    /\ p.header.channel = RELIABLE
    /\ ~ is_ack(p.header)

C34_FirstThenRetx ==
    [][ /\ SentReliable(SentNow) =>
             LET p == SentNow
                 seq == p.header.seq
             IN  /\ seq \in DOMAIN send_buffer'
                 /\ send_buffer'[seq].payload = p.payload
                 /\ ArmedAfter(seq) = 1
                 /\ IF seq \in DOMAIN send_buffer
                    THEN /\ HasRetxFlag(p.header.flags)
                         /\ send_buffer'[seq] =
                              [send_buffer[seq] EXCEPT !.retx_count = @ + 1]
                         /\ PendingTimers(seq) = 1
                    ELSE /\ p.header.flags = FLAG_NONE
                         /\ seq = next_seq
                         /\ send_buffer'[seq].retx_count = 0
                         /\ PendingTimers(seq) = 0
        /\ \A seq \in DOMAIN send_buffer \cap DOMAIN send_buffer' :
              send_buffer'[seq] # send_buffer[seq] =>
                  /\ SentReliable(SentNow)
                  /\ SentNow.header.seq = seq ]_vars

\* seq 0 went out unflagged and then once more with RETX, same payload, and
\* its entry counts the one retransmission behind one armed timer
C34_Witness ==
    /\ Len(c2s) = 2
    /\ decode_packet(c2s[1]).header.flags = FLAG_NONE
    /\ decode_packet(c2s[1]).header.seq = 0
    /\ HasRetxFlag(decode_packet(c2s[2]).header.flags)
    /\ decode_packet(c2s[2]).header.seq = 0
    /\ decode_packet(c2s[2]).payload = decode_packet(c2s[1]).payload
    /\ 0 \in DOMAIN send_buffer
    /\ send_buffer[0].retx_count = 1
    /\ PendingTimers(0) = 1

(***************************************************************************)
(* C35.  The ACK flag takes precedence over the channel field.  A          *)
(* decodable datagram with the ACK bit set, whatever its channel and       *)
(* payload, is never delivered to the application and never answered with  *)
(* an ACK.  On the client it is handled only as an acknowledgement of its  *)
(* seq: the entry of that seq, if any, leaves send_buffer and ack_rx is    *)
(* logged, and nothing else is logged or counted as data.  On the server   *)
(* it changes no peer's receive state (a peer not seen before gets the     *)
(* initial state) and logs nothing.                                        *)
(***************************************************************************)
C35_AckPrecedence ==
    [][ /\ \A addr \in Peers : \A data \in AckFlagged(0, Zero) \cup AckFlagged(1, Zero) :
              ServerInject(addr, data) =>
                  /\ recv_log' = recv_log
                  /\ s2c' = <<>>
                  /\ server_log' = server_log
                  /\ server_stats' = [server_stats EXCEPT !.rx_total = @ + 1]
                  /\ \A b \in DOMAIN clients : clients'[b] = clients[b]
                  /\ DOMAIN clients' = DOMAIN clients \cup {addr}
                  /\ clients'[addr] =
                        IF addr \in DOMAIN clients THEN clients[addr] ELSE ClientState
        /\ \A seq \in 0 .. MaxSends - 1 :
              AckInject(seq) =>
                  /\ client_recv' = client_recv
                  /\ c2s' = c2s
                  /\ client_stats'.rx_total = client_stats.rx_total + 1
                  /\ client_stats'.rx_reliable = client_stats.rx_reliable
                  /\ client_stats'.rx_unreliable = client_stats.rx_unreliable
                  /\ IF seq \in DOMAIN send_buffer
                     THEN /\ send_buffer' = Remove(send_buffer, seq)
                          /\ client_log' =
                               LogAll(client_log,
                                      << Event("ack_rx", ClientAddr, seq, 0) >>)
                     ELSE /\ send_buffer' = send_buffer
                          /\ client_log' = client_log ]_vars

\* the server holds seq 1 of peer A behind a gap and has read one more
\* datagram of A than it counted as data; the client has read one datagram,
\* counted none as data, and dropped seq 0 from send_buffer on it
C35_Witness ==
    /\ ClientAddr \in DOMAIN clients
    /\ DOMAIN clients[ClientAddr].recv_buffer = {1}
    /\ server_stats.rx_total = 2
    /\ server_stats.rx_reliable = 1
    /\ server_stats.rx_unreliable = 0
    /\ recv_log[ClientAddr] = <<>>
    /\ client_stats.rx_total = 1
    /\ client_stats.rx_reliable + client_stats.rx_unreliable = 0
    /\ Times(client_log, "ack_rx", ClientAddr, 0) = 1
    /\ 0 \notin DOMAIN send_buffer
    /\ client_recv = <<>>

(***************************************************************************)
(* C36.  Whenever the client has processed an ACK for reliable seq s, the  *)
(* server has either delivered that packet to the application or holds it  *)
(* in the sender's recv_buffer: an acknowledged packet is never one the    *)
(* receiver discarded.                                                     *)
(***************************************************************************)
C36_AckedIsHeld ==
    \A seq \in 0 .. MaxSends - 1 :
        AckRx(seq) >= 1 =>
            \/ seq \in DeliveredSeqs(ClientAddr)
            \/ seq \in DOMAIN ServerState.recv_buffer

(***************************************************************************)
(* C37.  Every packet inserted into a peer's recv_buffer is eventually     *)
(* delivered to the application, exactly once, while the server stays open *)
(* and its clock advances; an entry leaves recv_buffer only by being       *)
(* delivered.  (Stated for entries buffered while the clock still has      *)
(* gap_skip_timeout_ms to run.)                                            *)
(***************************************************************************)
Buffered(a, seq) == a \in DOMAIN clients /\ seq \in DOMAIN clients[a].recv_buffer

C37_BufferedDelivered ==
    /\ [][ \A a \in DOMAIN clients : \A seq \in DOMAIN clients[a].recv_buffer :
              seq \notin DOMAIN clients'[a].recv_buffer =>
                  /\ TimesDelivered(a, seq) = 0
                  /\ TimesDelivered(a, seq)' = 1 ]_vars
    /\ \A a \in Peers : \A seq \in 0 .. MaxSeq :
          (Buffered(a, seq) /\ ticks = 0 /\ ~ server_closed)
              ~> (TimesDelivered(a, seq) = 1 \/ server_closed)

(***************************************************************************)
(* C38.  The gap-skip scan abandons a missing seq only after a bounded     *)
(* wait on an actual gap: when expected_seq is advanced past it, some      *)
(* later packet has been held in recv_buffer for gap_skip_timeout_ms or    *)
(* more.  So when a datagram has just put the first packet into a peer's   *)
(* empty recv_buffer, however long the peer was idle before, a scan that   *)
(* runs before the clock moves skips nothing for that peer.                *)
(***************************************************************************)
C38_NoSkipOnFreshGap ==
    [][ \A a \in DOMAIN clients' :
           ( /\ rx_calls' = rx_calls + 1
             /\ DOMAIN clients'[a].recv_buffer # {}
             /\ (a \in DOMAIN clients => DOMAIN clients[a].recv_buffer = {}) )
           => (gap_check(a, clients[a]).skips)' = 0 ]_vars

(***************************************************************************)
(* C39.  In every reachable server state, for each peer every key of       *)
(* recv_buffer is strictly ahead of expected_seq and inside the receive    *)
(* window (1 <= (s - expected_seq) mod 2^16 < recv_window_size),           *)
(* recv_buffer and delivered_seqs are disjoint, and gap_first_seen has no  *)
(* key other than expected_seq.                                            *)
(***************************************************************************)
C39_BufferShape ==
    \A a \in DOMAIN clients :
        /\ \A s \in DOMAIN clients[a].recv_buffer :
              /\ 1 <= (s - clients[a].expected_seq) % SeqMod
              /\ (s - clients[a].expected_seq) % SeqMod < recv_window_size
        /\ DOMAIN clients[a].recv_buffer \cap clients[a].delivered_seqs = {}
        /\ DOMAIN clients[a].gap_first_seen \subseteq {clients[a].expected_seq}

\* a peer with seq 0 delivered, seq 2 buffered ahead of the missing seq 1,
\* and the gap of seq 1 stamped
C39_Witness ==
    /\ ClientAddr \in DOMAIN clients
    /\ clients[ClientAddr].expected_seq = 1
    /\ clients[ClientAddr].delivered_seqs = {0}
    /\ DOMAIN clients[ClientAddr].recv_buffer = {2}
    /\ DOMAIN clients[ClientAddr].gap_first_seen = {1}

(***************************************************************************)
(* C40.  However many send() calls are issued concurrently on a fresh      *)
(* GameNetAPIClient, the datagram endpoint and its ClientProtocol are      *)
(* created exactly once: at most one ClientProtocol is ever constructed,   *)
(* every call that got past _ensure_initialized uses that one instance and *)
(* none finds protocol unset, so the calls of a channel draw distinct seqs *)
(* from one counter and the reliable ones share one send_buffer.           *)
(***************************************************************************)
Using(c) == api.tasks[c].pc \in {"sent", "window_wait"}

C40_OneEndpoint ==
    /\ Len(api.endpoints) <= 1
    /\ api.initialized => api.protocol = 1 /\ Len(api.endpoints) = 1
    /\ \A c \in 1 .. MaxSends :
          /\ api.tasks[c].pc # "raised"
          /\ Using(c) => api.initialized /\ api.tasks[c].protocol = api.protocol
    /\ \A c, d \in 1 .. MaxSends :
          ( /\ c # d
            /\ api.tasks[c].pc = "sent"
            /\ api.tasks[d].pc = "sent"
            /\ api.tasks[c].reliable = api.tasks[d].reliable )
          => api.tasks[c].seq # api.tasks[d].seq
    /\ api.initialized =>
          api.endpoints[1].in_flight =
              Cardinality({ c \in 1 .. MaxSends :
                              api.tasks[c].pc = "sent" /\ api.tasks[c].reliable })

\* every send() has got through, some after queueing on the lock while the
\* endpoint was being created; the reliable ones filled the window
C40_Witness ==
    /\ \A c \in 1 .. MaxSends : Using(c)
    /\ \E c \in 1 .. MaxSends : api.tasks[c].waited
    /\ \E c \in 1 .. MaxSends : ~ api.tasks[c].reliable
    /\ Len(api.endpoints) = 1
    /\ api.endpoints[1].in_flight = send_window_size

=============================================================================
